---- MODULE Spec2Model ----
(***************************************************************************)
(* Model of hubseq/global_utils: the module-instance argument assembly of  *)
(* module_utils.py (insertArgument, flattenList, createModuleInstanceJSON, *)
(* createProgramArguments) and the path helpers of file_utils.py it calls. *)
(*                                                                         *)
(* Python values are represented as follows.                               *)
(*   str   : a sequence of one-character strings, 'ab' is <<"a","b">>      *)
(*   value : a record [kind, s, items]; Str(s) is the Python str s and     *)
(*           Lst(xs) the Python list whose elements are the values xs      *)
(*   list  : where the code always holds a list (pargs_list, the argument  *)
(*           of flattenList) the model holds the sequence of its values    *)
(***************************************************************************)
EXTENDS Integers, Sequences, FiniteSets, TLC

VARIABLES
    arg_list, call,                     \* insertArgument: the list, the last call
    arg_list_2d, flat_list, flattened,  \* flattenList: argument, result
    template, io_json,                  \* a job's module template and IO JSON
    mi_json,                            \* its module instance JSON
    pargs_list,                         \* createProgramArguments: pargs_list
    pc,                                 \* the next step of the job
    alt_i,                              \* index of the alternate being added
    order,                              \* the insertArgument calls made so far
    command,                            \* what createProgramArguments returned
    args,                               \* initProgram: the arguments of the
                                        \* command line (NoArgs: not called)
    mock,                               \* createProgramArguments: mock
    raised,                             \* the exception that ended the job, or ""
    subprocesses,                       \* executeProgram: the calls of
                                        \* subprocess.check_call it made
    uploads,                            \* the uploadFolder calls made
    downloads,                          \* the downloadFiles / downloadFolder
                                        \* calls made
    runs, previous,                     \* assemblies done; the command before
    fn_arg, inferred,                   \* inferFileType: argument, result
    run_args_json, created,             \* createIOJSON: argument, result
    dl_files, dl_dest_folder,           \* downloadFiles: files, dest_folder
    dl_returned,                        \* downloadFiles: what it returned
    mkdir_ok,                           \* whether base_dir takes new directories
    made,                               \* the directories made in base_dir
    uuid, working_dir                   \* generateWorkingDir: per run, the
                                        \* uuid4 drawn and the value returned

insVars == <<arg_list, call>>
flatVars == <<arg_list_2d, flat_list, flattened>>
asmVars == <<template, io_json, mi_json, pargs_list, pc, alt_i, order, command>>
jobVars == <<args, mock, raised, subprocesses, uploads, downloads, runs, previous>>
typeVars == <<fn_arg, inferred>>
ioVars == <<run_args_json, created>>
stageVars == <<dl_files, dl_dest_folder, dl_returned>>
dirVars == <<mkdir_ok, made, uuid, working_dir>>
auxVars == <<stageVars, dirVars>>
extVars == <<jobVars, typeVars, ioVars, auxVars>>
vars == <<insVars, flatVars, asmVars, extVars>>

----------------------------------------------------------------------------
(* Python values *)

Str(s) == [kind |-> "str", s |-> s, items |-> <<>>]
Lst(xs) == [kind |-> "list", s |-> <<>>, items |-> xs]
IsList(v) == v.kind = "list"
IsStr(v) == v.kind = "str"
EmptyStr == Str(<<>>)

(* in place of the value of a call: the exception that left it *)
Raises(exc) == [kind |-> "raise", s |-> <<exc>>, items |-> <<>>]

(* list.insert(i, x): a negative index counts from the end, and an index   *)
(* outside the list is clamped to its ends.                                *)
ListInsert(l, i, x) ==
    LET n == Len(l)
        k == IF i < 0 THEN (IF i + n < 0 THEN 0 ELSE i + n)
             ELSE (IF i > n THEN n ELSE i)
    IN SubSeq(l, 1, k) \o <<x>> \o SubSeq(l, k + 1, n)

----------------------------------------------------------------------------
(* Python str operations used by the code *)

Last(seq) == seq[Len(seq)]

(* s.split(c) for a one-character separator c *)
RECURSIVE Split(_, _)
Split(s, c) ==
    IF \E i \in 1..Len(s) : s[i] = c
    THEN LET i == CHOOSE j \in 1..Len(s) :
                      s[j] = c /\ \A k \in 1..(j - 1) : s[k] # c
         IN <<SubSeq(s, 1, i - 1)>> \o Split(SubSeq(s, i + 1, Len(s)), c)
    ELSE <<s>>

(* sep.join(parts) *)
RECURSIVE Join(_, _)
Join(sep, parts) ==
    IF parts = <<>> THEN <<>>
    ELSE IF Len(parts) = 1 THEN parts[1]
    ELSE parts[1] \o sep \o Join(sep, Tail(parts))

(* sub in s *)
Contains(s, sub) ==
    \E i \in 0..(Len(s) - Len(sub)) : SubSeq(s, i + 1, i + Len(sub)) = sub

StartsWith(s, pre) == Len(pre) <= Len(s) /\ SubSeq(s, 1, Len(pre)) = pre
EndsWith(s, suf) ==
    Len(suf) <= Len(s) /\ SubSeq(s, Len(s) - Len(suf) + 1, Len(s)) = suf

LowerLetters ==
    <<"a", "b", "c", "d", "e", "f", "g", "h", "i", "j", "k", "l", "m",
      "n", "o", "p", "q", "r", "s", "t", "u", "v", "w", "x", "y", "z">>
UpperLetters ==
    <<"A", "B", "C", "D", "E", "F", "G", "H", "I", "J", "K", "L", "M",
      "N", "O", "P", "Q", "R", "S", "T", "U", "V", "W", "X", "Y", "Z">>
UpperChar(c) ==
    IF \E i \in 1..Len(LowerLetters) : LowerLetters[i] = c
    THEN UpperLetters[CHOOSE i \in 1..Len(LowerLetters) : LowerLetters[i] = c]
    ELSE c
LowerChar(c) ==
    IF \E i \in 1..Len(UpperLetters) : UpperLetters[i] = c
    THEN LowerLetters[CHOOSE i \in 1..Len(UpperLetters) : UpperLetters[i] = c]
    ELSE c
Upper(s) == [i \in 1..Len(s) |-> UpperChar(s[i])]
Lower(s) == [i \in 1..Len(s) |-> LowerChar(s[i])]

(* s.rfind(c): the 0-based index of the last c, or -1 *)
RFind(s, c) ==
    IF \E i \in 1..Len(s) : s[i] = c
    THEN (CHOOSE j \in 1..Len(s) :
              s[j] = c /\ \A k \in (j + 1)..Len(s) : s[k] # c) - 1
    ELSE -1

(* s.rstrip(c) *)
RECURSIVE RStrip(_, _)
RStrip(s, c) ==
    IF s # <<>> /\ Last(s) = c THEN RStrip(SubSeq(s, 1, Len(s) - 1), c) ELSE s

(* s[0:k] *)
SliceTo(s, k) ==
    IF k >= 0 THEN SubSeq(s, 1, IF k > Len(s) THEN Len(s) ELSE k)
    ELSE SubSeq(s, 1, Len(s) + k)

(* os.path.join(a, b) on a POSIX system *)
PathJoin(a, b) ==
    IF StartsWith(b, <<"/">>) THEN b
    ELSE IF a = <<>> \/ EndsWith(a, <<"/">>) THEN a \o b
    ELSE a \o <<"/">> \o b

----------------------------------------------------------------------------
(* file_utils: path helpers *)

COMBO_FILETYPES == << <<"F", "A", "S", "T", "Q", ".", "G", "Z">> >>

(* the name after the last '/' *)
BaseName(s) == Last(Split(s, "/"))

MapItems(Op(_), items) == [i \in 1..Len(items) |-> Op(items[i])]

getFileOnlyStr(v) == Str(BaseName(v.s))
getFileOnly(file_fullpath) ==
    IF IsList(file_fullpath)
    THEN Lst(MapItems(getFileOnlyStr, file_fullpath.items))
    ELSE Str(BaseName(file_fullpath.s))

(* the folder of one path string *)
FolderOf(s) ==
    IF Contains(BaseName(s), <<".">>)
    THEN SliceTo(s, RFind(s, "/")) \o <<"/">>
    ELSE RStrip(s, "/") \o <<"/">>

getFileFolder(file_fullpath) ==
    IF IsList(file_fullpath) /\ file_fullpath.items # <<>>
    THEN FolderOf(file_fullpath.items[1].s)
    ELSE IF IsStr(file_fullpath) THEN FolderOf(file_fullpath.s)
    ELSE <<>>

(* the type of one file name that contains a '.' *)
TypeOfName(fn) ==
    LET parts == Split(fn, ".")
        n == Len(parts)
    IN IF \E i \in 1..Len(COMBO_FILETYPES) : EndsWith(Upper(fn), COMBO_FILETYPES[i])
       THEN parts[n - 1] \o <<".">> \o parts[n]
       ELSE parts[n]

inferFileType(fn) ==
    IF IsStr(fn) /\ Contains(fn.s, <<".">>) THEN TypeOfName(fn.s)
    ELSE IF IsList(fn) /\ fn.items # <<>> /\ Contains(fn.items[1].s, <<".">>)
         THEN TypeOfName(fn.items[1].s)
    ELSE <<>>

FullPathOf(root_folder, f) ==
    IF Contains(f, root_folder) THEN f ELSE PathJoin(root_folder, f)

getFullPath(root_folder, files) ==
    IF IsList(files)
    THEN Lst([i \in 1..Len(files.items) |->
                  Str(FullPathOf(root_folder, files.items[i].s))])
    ELSE Str(FullPathOf(root_folder, files.s))

inferFileSystem(filepath) ==
    IF StartsWith(filepath, <<"s", "3", ":", "/">>) THEN <<"s", "3">>
    ELSE <<"l", "o", "c", "a", "l">>

(* aws_s3_utils.downloadFile_S3 when the transfer succeeds: the path of    *)
(* the local file, os.path.join(dir, key.split('/')[-1]); the bucket is    *)
(* s3path.split('/')[2], an IndexError for a path of fewer than 3 parts    *)
downloadFile_S3(s3path, dir_to_download) ==
    IF s3path = EmptyStr \/ s3path = Lst(<<>>) THEN EmptyStr
    ELSE LET path == IF IsList(s3path) THEN s3path.items[1].s ELSE s3path.s
             parts == Split(path, "/")
             object_filename == IF Len(parts) > 3 THEN Last(parts) ELSE <<>>
         IN IF Len(parts) < 3 THEN Raises("IndexError")
            ELSE Str(PathJoin(dir_to_download, object_filename))

(* the files are downloaded one after another; the exception of one of     *)
(* them leaves the function                                                *)
downloadFiles_S3(s3paths, dir_to_download) ==
    IF IsList(s3paths)
    THEN LET local_filenames ==
                 [i \in 1..Len(s3paths.items) |->
                     downloadFile_S3(s3paths.items[i], dir_to_download)]
         IN IF \E i \in 1..Len(local_filenames) : local_filenames[i].kind = "raise"
            THEN Raises("IndexError")
            ELSE Lst(local_filenames)
    ELSE downloadFile_S3(s3paths, dir_to_download)

(* file_utils.copyLocalFiles when the copy succeeds *)
copyLocalFiles(local_files, dest_folder) ==
    IF IsStr(local_files) \/ local_files.items # <<>>
    THEN getFullPath(dest_folder, getFileOnly(local_files))
    ELSE Str(dest_folder)

(* 's3:/' in str(files) *)
NamesS3(files) ==
    IF IsList(files)
    THEN \E i \in 1..Len(files.items) : Contains(files.items[i].s, <<"s", "3", ":", "/">>)
    ELSE Contains(files.s, <<"s", "3", ":", "/">>)

(* downloadFiles(files, dest_folder, file_system, mock): what it returns   *)
(* when no transfer fails                                                  *)
downloadFiles(files, dest_folder, file_system, mock_) ==
    IF mock_ THEN getFullPath(dest_folder, getFileOnly(files))
    ELSE IF Lower(file_system) = <<"s", "3">> \/ NamesS3(files)
         THEN downloadFiles_S3(files, dest_folder)
    ELSE IF Lower(file_system) = <<"l", "o", "c", "a", "l">>
         THEN copyLocalFiles(files, dest_folder)
    ELSE getFullPath(dest_folder, getFileOnly(files))

(* downloadFolder(folder_fullpath, dest_folder, file_system, mock): what   *)
(* it returns when no transfer fails; a list is replaced by its first      *)
(* element unless it is empty, and folder_fullpath.split of the empty list *)
(* raises AttributeError, before mock is looked at                         *)
downloadFolder(folder_fullpath, dest_folder, file_system, mock_) ==
    LET folder == IF IsList(folder_fullpath) /\ folder_fullpath.items # <<>>
                  THEN folder_fullpath.items[1].s ELSE folder_fullpath.s
        dest_folder_extended ==
            IF Contains(BaseName(folder), <<".">>)
            THEN RStrip(dest_folder, "/") \o <<"/">> \o BaseName(folder)
            ELSE <<>>
        containing ==
            IF Contains(BaseName(folder), <<".">>)
            THEN SliceTo(folder, RFind(folder, "/")) \o <<"/">>
            ELSE folder
    IN IF folder_fullpath = Lst(<<>>) THEN Raises("AttributeError")
       ELSE IF mock_ THEN Str(dest_folder)
       ELSE IF Lower(file_system) = <<"s", "3">>
               \/ Contains(containing, <<"s", "3", ":", "/">>)
            THEN Str(IF dest_folder_extended # <<>> THEN dest_folder_extended
                     ELSE dest_folder)
       ELSE Str(dest_folder)

----------------------------------------------------------------------------
(* module_utils.insertArgument *)

(* Variants of insertArgument with one plausible slip each, used to show    *)
(* that the checked properties depend on the code.                         *)
insertArgument_AbsOffByOne(arg_list_, arg, pos) ==
    IF pos = -1 THEN ListInsert(arg_list_, Len(arg_list_), arg)
    ELSE IF pos = -100 THEN arg_list_
    ELSE IF pos < -1 /\ pos > -99 THEN ListInsert(arg_list_, pos + 1, arg)
    ELSE IF pos >= 0 THEN ListInsert(arg_list_, pos + 1, arg)
    ELSE arg_list_

insertArgument_EndPlusTwo(arg_list_, arg, pos) ==
    IF pos = -1 THEN ListInsert(arg_list_, Len(arg_list_), arg)
    ELSE IF pos = -100 THEN arg_list_
    ELSE IF pos < -1 /\ pos > -99
         THEN ListInsert(arg_list_, Len(arg_list_) + pos + 2, arg)
    ELSE IF pos >= 0 THEN ListInsert(arg_list_, pos, arg)
    ELSE arg_list_

insertArgument_RawNegative(arg_list_, arg, pos) ==
    IF pos = -1 THEN ListInsert(arg_list_, pos, arg)
    ELSE IF pos = -100 THEN arg_list_
    ELSE IF pos < -1 /\ pos > -99 THEN ListInsert(arg_list_, pos, arg)
    ELSE IF pos >= 0 THEN ListInsert(arg_list_, pos, arg)
    ELSE arg_list_

insertArgument_NoSuppress(arg_list_, arg, pos) ==
    IF pos = -1 THEN ListInsert(arg_list_, Len(arg_list_), arg)
    ELSE IF pos < -1 THEN ListInsert(arg_list_, pos + 1, arg)
    ELSE IF pos >= 0 THEN ListInsert(arg_list_, pos, arg)
    ELSE arg_list_

(* Variant of insertArgument that assigns arg_list[pos] = arg at an         *)
(* absolute position inside the list.                                      *)
insertArgument_Overwrites(arg_list_, arg, pos) ==
    IF pos = -1 THEN ListInsert(arg_list_, Len(arg_list_), arg)
    ELSE IF pos = -100 THEN arg_list_
    ELSE IF pos < -1 /\ pos > -99 THEN ListInsert(arg_list_, pos + 1, arg)
    ELSE IF pos >= 0 /\ pos < Len(arg_list_) THEN [arg_list_ EXCEPT ![pos + 1] = arg]
    ELSE IF pos >= 0 THEN ListInsert(arg_list_, pos, arg)
    ELSE arg_list_

insertArgument(arg_list_, arg, pos) ==
    IF pos = -1 THEN ListInsert(arg_list_, Len(arg_list_), arg)
    ELSE IF pos = -100 THEN arg_list_
    ELSE IF pos < -1 /\ pos > -99 THEN ListInsert(arg_list_, pos + 1, arg)
    ELSE IF pos >= 0 THEN ListInsert(arg_list_, pos, arg)
    ELSE arg_list_

----------------------------------------------------------------------------
(* module_utils.flattenList *)

(* Variant of AddLeaf that keeps empty strings. *)
AddLeaf_KeepEmpty(flat, e) == Append(flat, e)

(* flat_list = flat_list + [e] if e != '' else flat_list *)
AddLeaf(flat, e) == IF e = EmptyStr THEN flat ELSE Append(flat, e)

RECURSIVE FlattenLevel3(_, _)
FlattenLevel3(flat, e2items) ==
    IF e2items = <<>> THEN flat
    ELSE FlattenLevel3(AddLeaf(flat, Head(e2items)), Tail(e2items))

(* Variant of the second loop that does not descend into a third level. *)
RECURSIVE FlattenLevel2_NoThirdLevel(_, _)
FlattenLevel2_NoThirdLevel(flat, eitems) ==
    IF eitems = <<>> THEN flat
    ELSE FlattenLevel2_NoThirdLevel(AddLeaf(flat, Head(eitems)), Tail(eitems))

RECURSIVE FlattenLevel2(_, _)
FlattenLevel2(flat, eitems) ==
    IF eitems = <<>> THEN flat
    ELSE LET e2 == Head(eitems)
         IN FlattenLevel2(IF IsList(e2) THEN FlattenLevel3(flat, e2.items)
                          ELSE AddLeaf(flat, e2),
                          Tail(eitems))

RECURSIVE FlattenLevel1(_, _)
FlattenLevel1(flat, list) ==
    IF list = <<>> THEN flat
    ELSE LET e == Head(list)
         IN FlattenLevel1(IF IsList(e) THEN FlattenLevel2(flat, e.items)
                          ELSE AddLeaf(flat, e),
                          Tail(list))

flattenList(list) == FlattenLevel1(<<>>, list)

----------------------------------------------------------------------------
(* String literals of the assembly specification *)

s_bwa == <<"b", "w", "a">>
s_mem == <<"m", "e", "m">>
s_base == <<"-", "S", " ", "-", "t", " ", "4">>
s_i == <<"-", "i">>
s_o == <<"-", "o">>
s_L == <<"-", "L">>
s_g == <<"-", "g">>
s_FASTQ == <<"F", "A", "S", "T", "Q">>
s_FASTQ_GZ == <<"F", "A", "S", "T", "Q", ".", "G", "Z">>
s_SAM == <<"S", "A", "M">>
s_BED == <<"B", "E", "D">>
s_FASTA == <<"F", "A", "S", "T", "A">>
s_LOG == <<"L", "O", "G">>
s_file == <<"f", "i", "l", "e">>
s_folder == <<"f", "o", "l", "d", "e", "r">>
f_fastq == <<"s", "3", ":", "/", "/", "f", "q", "/", "a", ".", "f", "a", "s", "t", "q">>
f_fastq_gz1 == <<"s", "3", ":", "/", "/", "f", "q", "/", "a", ".", "f", "a", "s", "t", "q", ".", "g", "z">>
f_fastq_gz2 == <<"s", "3", ":", "/", "/", "f", "q", "/", "b", ".", "f", "a", "s", "t", "q", ".", "g", "z">>
f_in_txt == <<"s", "3", ":", "/", "/", "f", "q", "/", "a", ".", "t", "x", "t">>
f_sam == <<"s", "3", ":", "/", "/", "a", "l", "/", "a", ".", "s", "a", "m">>
f_out_txt == <<"s", "3", ":", "/", "/", "a", "l", "/", "a", ".", "t", "x", "t">>
f_fasta == <<"s", "3", ":", "/", "/", "f", "a", "/", "x", ".", "f", "a", "s", "t", "a">>
f_bed == <<"s", "3", ":", "/", "/", "b", "d", "/", "y", ".", "b", "e", "d">>
f_alt_txt == <<"s", "3", ":", "/", "/", "o", "t", "/", "z", ".", "t", "x", "t">>
f_log == <<"s", "3", ":", "/", "/", "l", "g", "/", "w", ".", "l", "o", "g">>
input_working_dir == <<"/", "i", "n", "/">>
output_working_dir == <<"/", "o", "u", "t", "/">>
DRYRUN_SUFFIX == <<" ", "-", "d", "r", "y", "r", "u", "n">>
DRYRUN_MARKER == SubSeq(DRYRUN_SUFFIX, 2, Len(DRYRUN_SUFFIX))

----------------------------------------------------------------------------
(* module_utils.createModuleInstanceJSON                                   *)
(*                                                                         *)
(* A template slot is [type, file_type, position, prefix] (the keys        *)
(* input_type / output_type, ..._file_type, ..._position, ..._prefix); a   *)
(* slot of the module instance adds io (the key 'input' or 'output') and   *)
(* directory, and resolved = FALSE stands for the empty dict {}.           *)

Slot(type, file_type, position, prefix) ==
    [type |-> type, file_type |-> file_type, position |-> position, prefix |-> prefix]

Unresolved ==
    [resolved |-> FALSE, io |-> Lst(<<>>), type |-> <<>>, file_type |-> <<>>,
     directory |-> <<>>, position |-> 0, prefix |-> <<>>]

Resolved(files, pi, directory) ==
    [resolved |-> TRUE, io |-> getFileOnly(files), type |-> pi.type,
     file_type |-> pi.file_type, directory |-> directory,
     position |-> pi.position, prefix |-> pi.prefix]

(* '/' in str(input_file) *)
NamesFolder(input_file) ==
    IF IsList(input_file)
    THEN \E i \in 1..Len(input_file.items) : Contains(input_file.items[i].s, <<"/">>)
    ELSE Contains(input_file.s, <<"/">>)

(* the folder of the file when its path names one, else the directory the  *)
(* IO JSON gives, '' when it gives none                                    *)
getDirectory(input_file, input_dir) ==
    IF NamesFolder(input_file) THEN getFileFolder(input_file)
    ELSE IF input_dir # <<>> THEN input_dir
    ELSE <<>>

(* getDirectory(io_json[key], io_json[dirkey]) if dirkey in io_json else   *)
(* getFileFolder(io_json[key])                                             *)
PrimaryDirectory(io, dirkey, files, dir) ==
    IF dirkey \in io.keys THEN getDirectory(files, dir) ELSE getFileFolder(files)

TypeMatches(files, pi) == Upper(inferFileType(files)) = Upper(pi.file_type)

(* for pi in slots: if the type matches: mi_json[...] = {...}  (last match wins) *)
ResolvePrimary(slots, files, directory) ==
    LET matching == { i \in 1..Len(slots) : TypeMatches(files, slots[i]) }
    IN IF matching = {} THEN Unresolved
       ELSE Resolved(files, slots[CHOOSE i \in matching : \A j \in matching : j <= i],
                     directory)

(* the instance slots one alternate file adds, one per matching slot *)
RECURSIVE MatchesOf(_, _)
MatchesOf(file, slots) ==
    IF slots = <<>> THEN <<>>
    ELSE (IF TypeMatches(file, Head(slots))
          THEN <<Resolved(file, Head(slots), getFileFolder(file))>> ELSE <<>>)
         \o MatchesOf(file, Tail(slots))

(* Variant of ResolveAlternates with the two loops exchanged. *)
RECURSIVE ResolveAlternates_SlotMajor(_, _)
ResolveAlternates_SlotMajor(files, slots) ==
    IF slots = <<>> THEN <<>>
    ELSE LET RECURSIVE FilesOf(_)
             FilesOf(fs) ==
                 IF fs = <<>> THEN <<>>
                 ELSE MatchesOf(Head(fs), <<Head(slots)>>) \o FilesOf(Tail(fs))
         IN FilesOf(files) \o ResolveAlternates_SlotMajor(files, Tail(slots))

(* for alt in io_json[...]: for pi in template[...]: if the type matches: append *)
RECURSIVE ResolveAlternates(_, _)
ResolveAlternates(files, slots) ==
    IF files = <<>> THEN <<>>
    ELSE MatchesOf(Head(files), slots) \o ResolveAlternates(Tail(files), slots)

s_inputdir == <<"i", "n", "p", "u", "t", "d", "i", "r">>
s_outputdir == <<"o", "u", "t", "p", "u", "t", "d", "i", "r">>

(* 'inputdir' in alt_input is a substring test on the file name; when it   *)
(* holds for a matched file, alt_input['input'] raises TypeError.          *)
AlternateRaises(files, slots, key) ==
    \E i \in 1..Len(files) :
        /\ Contains(files[i].s, key)
        /\ \E j \in 1..Len(slots) : TypeMatches(files[i], slots[j])

(* module_template_json[key] raises KeyError when the template has not the *)
(* key; the alternate lists are read once per alternate file of the IO     *)
(* JSON, so not at all when it lists none                                  *)
TemplateKeyError(module_template_json, io) ==
    \/ "program_input" \in module_template_json.missing
    \/ "program_output" \in module_template_json.missing
    \/ "alternate_inputs" \in module_template_json.missing /\ io.alternate_inputs # <<>>
    \/ "alternate_outputs" \in module_template_json.missing /\ io.alternate_outputs # <<>>

createModuleInstanceJSON(module_template_json, io) ==
    [ raised |->
          \/ TemplateKeyError(module_template_json, io)
          \/ AlternateRaises(io.alternate_inputs,
                             module_template_json.alternate_inputs, s_inputdir)
          \/ AlternateRaises(io.alternate_outputs,
                             module_template_json.alternate_outputs, s_outputdir),
      program_name |-> module_template_json.program_name,
      program_subname |-> module_template_json.program_subname,
      program_arguments |->
          IF io.program_arguments # <<>> THEN io.program_arguments
          ELSE module_template_json.program_arguments,
      program_input |->
          ResolvePrimary(module_template_json.program_input, io.input,
                         PrimaryDirectory(io, "inputdir", io.input, io.inputdir)),
      program_output |->
          ResolvePrimary(module_template_json.program_output, io.output,
                         PrimaryDirectory(io, "outputdir", io.output, io.outputdir)),
      alternate_inputs |->
          ResolveAlternates(io.alternate_inputs, module_template_json.alternate_inputs),
      alternate_outputs |->
          ResolveAlternates(io.alternate_outputs, module_template_json.alternate_outputs),
      dryrun |-> io.dryrun ]

----------------------------------------------------------------------------
(* module_utils.createProgramArguments, step by step *)

StrList(parts) == [i \in 1..Len(parts) |-> Str(parts[i])]

(* Variant of InputArgument that leaves the prefix out of the pair. *)
InputArgument_NoPrefix(slot) ==
    Lst(<<IF Lower(slot.type) = s_folder
          THEN downloadFolder(getFullPath(slot.directory, slot.io), input_working_dir,
                              inferFileSystem(slot.directory), mock)
          ELSE downloadFiles(getFullPath(slot.directory, slot.io), input_working_dir,
                             inferFileSystem(slot.directory), mock)>>)

(* [prefix, downloadFolder(...)] or [prefix, downloadFiles(...)] *)
InputArgument(slot) ==
    Lst(<<Str(slot.prefix),
          IF Lower(slot.type) = s_folder
          THEN downloadFolder(getFullPath(slot.directory, slot.io), input_working_dir,
                              inferFileSystem(slot.directory), mock)
          ELSE downloadFiles(getFullPath(slot.directory, slot.io), input_working_dir,
                             inferFileSystem(slot.directory), mock)>>)

(* the call that stages the files of an input slot: downloadFolder for a   *)
(* slot of type 'folder', downloadFiles otherwise, with the same arguments  *)
(* whatever the slot's position                                            *)
DownloadCall(slot) ==
    [by |-> IF Lower(slot.type) = s_folder THEN "downloadFolder" ELSE "downloadFiles",
     files |-> getFullPath(slot.directory, slot.io),
     dest_folder |-> input_working_dir,
     file_system |-> inferFileSystem(slot.directory),
     mock |-> mock,
     caller |-> "createProgramArguments"]

(* the download of the slot's files leaves createProgramArguments with an  *)
(* exception, before insertArgument is called                              *)
StagingRaises(slot) == Last(InputArgument(slot).items).kind = "raise"

(* [prefix, getFullPath(output_working_dir, output)] *)
OutputArgument(slot) ==
    Lst(<<Str(slot.prefix), getFullPath(output_working_dir, slot.io)>>)

(* the step after the primary output, and after each alternate *)
AfterOutput(mi) ==
    IF mi.alternate_inputs # <<>> THEN "alternate_inputs"
    ELSE IF mi.alternate_outputs # <<>> THEN "alternate_outputs"
    ELSE "subname"
AfterAlternateInputs(mi) ==
    IF mi.alternate_outputs # <<>> THEN "alternate_outputs" ELSE "subname"

(* the value returned: ' '.join(flattenList(pargs_list)) or the list, and  *)
(* += ' -dryrun' when the instance has the key dryrun (on a list, += of a  *)
(* str appends each of its characters)                                     *)
ReturnValue(list, rtype, dryrun) ==
    LET flat == flattenList(list)
    IN IF Lower(SliceTo(rtype, 3)) = <<"s", "t", "r">>
       THEN Str(Join(<<" ">>, [i \in 1..Len(flat) |-> flat[i].s])
                \o (IF dryrun THEN DRYRUN_SUFFIX ELSE <<>>))
       ELSE Lst(flat \o (IF dryrun
                         THEN [i \in 1..Len(DRYRUN_SUFFIX) |-> Str(<<DRYRUN_SUFFIX[i]>>)]
                         ELSE <<>>))

----------------------------------------------------------------------------
(* module_utils.createIOJSON *)

(* A run-arguments JSON: keys is the set of keys it has, the other fields  *)
(* are the values of those keys (the empty str for a key it has not).      *)
RunArgs(keys, sampleid, input, inputdir, output, outputdir, alternate_inputs, dryrun) ==
    [keys |-> keys, sampleid |-> sampleid, sample_id |-> <<>>, input |-> input,
     inputdir |-> inputdir, output |-> output, outputdir |-> outputdir,
     alternate_inputs |-> alternate_inputs, alternate_outputs |-> <<>>,
     pargs |-> <<>>, options |-> <<>>, dryrun |-> dryrun]

(* the bool True as the value of a key: no str, so equal to none *)
PyTrue == <<"True">>

(* module_utils.isDryRun *)
isDryRun(args_json) == "dryrun" \in args_json.keys /\ args_json.dryrun = PyTrue

(* inferSampleID of a str *)
inferSampleID(input_file) ==
    IF input_file # <<>> THEN Head(Split(BaseName(input_file), ".")) ELSE <<>>

(* formatIOFile: if no file name is specified, use the sample ID *)
formatIOFile(io_file, sid) ==
    IF Contains(BaseName(io_file), <<".">>) THEN io_file
    ELSE PathJoin(io_file, sid \o <<".">> \o Lower(inferFileType(Str(io_file))))

(* the result of createIOJSON: raised is the exception that left the       *)
(* function ("" when it returned), the other fields are the io_json        *)
IOResult(exc, sample_id, input, output, alternate_inputs, alternate_outputs, program_arguments, options, dryrun) ==
    [done |-> TRUE, raised |-> exc, sample_id |-> sample_id,
     input |-> Lst(StrList(input)), output |-> Lst(StrList(output)),
     alternate_inputs |-> StrList(alternate_inputs),
     alternate_outputs |-> StrList(alternate_outputs),
     program_arguments |-> program_arguments, options |-> options, dryrun |-> dryrun]

NoIOResult ==
    [done |-> FALSE, raised |-> "", sample_id |-> <<>>, input |-> Lst(<<>>),
     output |-> Lst(<<>>), alternate_inputs |-> <<>>, alternate_outputs |-> <<>>,
     program_arguments |-> <<>>, options |-> <<>>, dryrun |-> FALSE]

(* createIOJSON: the IOError raised for a file without directory is caught *)
(* by the function's own except clause, and the io_json filled so far is   *)
(* returned; a KeyError (no 'input', no 'output') leaves the function      *)
createIOJSON(run_args) ==
    LET has(k) == k \in run_args.keys
        sid == IF has("sampleid") THEN run_args.sampleid
               ELSE IF has("sample_id") THEN run_args.sample_id
               ELSE inferSampleID(run_args.input)
        input_list == Split(run_args.input, ",")
        output_list == Split(run_args.output, ",")
        inputError == \E i \in 1..Len(input_list) :
                          ~Contains(input_list[i], <<"/">>) /\ ~has("inputdir")
        outputError == \E i \in 1..Len(output_list) :
                           ~Contains(output_list[i], <<"/">>) /\ ~has("outputdir")
        input_list_final ==
            [i \in 1..Len(input_list) |->
                IF Contains(input_list[i], <<"/">>) THEN input_list[i]
                ELSE PathJoin(run_args.inputdir, input_list[i])]
        output_list_final ==
            [i \in 1..Len(output_list) |->
                IF Contains(output_list[i], <<"/">>)
                THEN formatIOFile(output_list[i], sid)
                ELSE PathJoin(run_args.outputdir, formatIOFile(output_list[i], sid))]
    IN IF ~has("input")
       THEN IOResult("KeyError", <<>>, <<>>, <<>>, <<>>, <<>>, <<>>, <<>>, FALSE)
       ELSE IF inputError
       THEN IOResult("", sid, <<>>, <<>>, <<>>, <<>>, <<>>, <<>>, FALSE)
       ELSE IF ~has("output")
       THEN IOResult("KeyError", <<>>, <<>>, <<>>, <<>>, <<>>, <<>>, <<>>, FALSE)
       ELSE IF outputError
       THEN IOResult("", sid, input_list_final, <<>>, <<>>, <<>>, <<>>, <<>>, FALSE)
       ELSE IOResult("", sid, input_list_final, output_list_final,
                IF has("alternate_inputs") THEN Split(run_args.alternate_inputs, ",")
                ELSE <<>>,
                IF has("alternate_outputs") THEN Split(run_args.alternate_outputs, ",")
                ELSE <<>>,
                IF has("pargs") THEN run_args.pargs ELSE <<>>,
                IF has("options") THEN run_args.options ELSE <<>>,
                has("dryrun") /\ run_args.dryrun = <<>>)

----------------------------------------------------------------------------
(* module_utils.executeProgram *)

(* '-dryrun' in pargs: a substring of a str, an element of a list *)
HasDryRun(pargs) ==
    IF IsStr(pargs) THEN Contains(pargs.s, DRYRUN_MARKER)
    ELSE \E i \in 1..Len(pargs.items) : pargs.items[i] = Str(DRYRUN_MARKER)

(* the outcome of one call: whether subprocess.check_call was reached,     *)
(* with what, and the exception that left the function ("" for none)       *)
Execution(started, pargs, redirected, status, exc) ==
    [started |-> started, pargs |-> pargs, redirected |-> redirected,
     status |-> status, raised |-> exc]

(* Variant of executeProgram that does not look for the dry-run marker. *)
executeProgram_NoDryRunCheck(pargs, fout_name, status) ==
    LET redirected == fout_name # <<>> /\ Contains(BaseName(fout_name), <<".">>)
    IN IF IsList(pargs)
       THEN Execution(FALSE, pargs, redirected, 0, "AttributeError")
       ELSE Execution(TRUE, pargs, redirected, status,
                      IF status # 0 THEN "CalledProcessError" ELSE "")

(* Variant of executeProgram that ignores the exit status (subprocess.call *)
(* in place of subprocess.check_call).                                     *)
executeProgram_IgnoresStatus(pargs, fout_name, status) ==
    LET redirected == fout_name # <<>> /\ Contains(BaseName(fout_name), <<".">>)
    IN IF HasDryRun(pargs) THEN Execution(FALSE, pargs, FALSE, 0, "")
       ELSE IF IsList(pargs)
       THEN Execution(FALSE, pargs, redirected, 0, "AttributeError")
       ELSE Execution(TRUE, pargs, redirected, status, "")

(* executeProgram(pargs, fout_name) when the program exits with status:    *)
(* nothing is started for a dry run; pargs.split(' ') raises               *)
(* AttributeError for a list; check_call raises CalledProcessError for a   *)
(* nonzero exit status                                                     *)
executeProgram(pargs, fout_name, status) ==
    LET redirected == fout_name # <<>> /\ Contains(BaseName(fout_name), <<".">>)
    IN IF HasDryRun(pargs) THEN Execution(FALSE, pargs, FALSE, 0, "")
       ELSE IF IsList(pargs)
       THEN Execution(FALSE, pargs, redirected, 0, "AttributeError")
       ELSE Execution(TRUE, pargs, redirected, status,
                      IF status # 0 THEN "CalledProcessError" ELSE "")

(* file_utils.uploadFolder(local_folder, remote_folder) as uploadOutput    *)
(* calls it (file_system = 'local', mock = False): the transfer it makes   *)
uploadFolder(local_folder, remote_folder) ==
    [local_folder |-> local_folder, remote_folder |-> remote_folder,
     by |-> IF Contains(remote_folder, <<"s", "3", ":", "/">>)
            THEN "uploadFolder_S3" ELSE "copyLocalFolder"]

----------------------------------------------------------------------------
(* The values of the variables a specification does not use *)

NoCall == [done |-> FALSE, before |-> <<>>, arg |-> EmptyStr, pos |-> 0]

NoTemplate ==
    [program_name |-> <<>>, program_subname |-> <<>>, program_arguments |-> <<>>,
     program_input |-> <<>>, program_output |-> <<>>,
     alternate_inputs |-> <<>>, alternate_outputs |-> <<>>, missing |-> {}]

NoIO ==
    [input |-> Lst(<<>>), output |-> Lst(<<>>), alternate_inputs |-> <<>>,
     alternate_outputs |-> <<>>, program_arguments |-> <<>>, dryrun |-> FALSE,
     keys |-> {}, inputdir |-> <<>>, outputdir |-> <<>>]

NoInstance ==
    [raised |-> FALSE, program_name |-> <<>>, program_subname |-> <<>>,
     program_arguments |-> <<>>, program_input |-> Unresolved,
     program_output |-> Unresolved, alternate_inputs |-> <<>>,
     alternate_outputs |-> <<>>, dryrun |-> FALSE]

InsIdle ==
    /\ arg_list = <<>>
    /\ call = NoCall

FlatIdle ==
    /\ arg_list_2d = <<>>
    /\ flat_list = <<>>
    /\ flattened = FALSE

AsmIdle ==
    /\ template = NoTemplate
    /\ io_json = NoIO
    /\ mi_json = NoInstance
    /\ pargs_list = <<>>
    /\ pc = "idle"
    /\ alt_i = 1
    /\ order = <<>>
    /\ command = EmptyStr

NoRunArgs == RunArgs({}, <<>>, <<>>, <<>>, <<>>, <<>>, <<>>, <<>>)

NoType == [done |-> FALSE, s |-> <<>>]

(* initProgram is not the caller: createModuleInstanceJSON and             *)
(* createProgramArguments are called directly                              *)
NoArgs == [module_name |-> <<>>, run_arguments |-> <<>>]

JobIdle ==
    /\ args = NoArgs
    /\ mock = TRUE
    /\ raised = ""
    /\ subprocesses = <<>>
    /\ uploads = <<>>
    /\ downloads = <<>>
    /\ runs = 0
    /\ previous = EmptyStr

TypeIdle ==
    /\ fn_arg = EmptyStr
    /\ inferred = NoType

IOIdle ==
    /\ run_args_json = NoRunArgs
    /\ created = NoIOResult

MaxJobs == 3

NoDownload == [done |-> FALSE, value |-> EmptyStr]

StageIdle ==
    /\ dl_files = EmptyStr
    /\ dl_dest_folder = <<>>
    /\ dl_returned = NoDownload

DirIdle ==
    /\ mkdir_ok = TRUE
    /\ made = {}
    /\ uuid = [run \in 1..MaxJobs |-> ""]
    /\ working_dir = [run \in 1..MaxJobs |-> <<>>]

AuxIdle == StageIdle /\ DirIdle

ExtIdle == JobIdle /\ TypeIdle /\ IOIdle /\ AuxIdle

----------------------------------------------------------------------------
(* Bounds and input sets of the insertArgument specification *)

MaxBase == 5
MaxLen == 6

T(c) == Str(<<c>>)
Digits == <<"1", "2", "3", "4", "5", "6", "7", "8", "9">>
BaseList(k) == [i \in 1..k |-> T(Digits[i])]

(* 'a', a token equal to a base token, and ['-i', ['R1', 'R2']] *)
InsArgs ==
    { T("a"), T("1"),
      Lst(<<Str(<<"-", "i">>), Lst(<<Str(<<"R", "1">>), Str(<<"R", "2">>)>>)>>) }

Positions == ((0 - (MaxLen + 2)) .. (MaxLen + 1)) \cup {-101, -100, -99, -98}

InitInsert ==
    /\ arg_list \in { BaseList(k) : k \in 0..MaxBase }
    /\ call = NoCall
    /\ FlatIdle
    /\ AsmIdle
    /\ ExtIdle

(* one call insertArgument(arg_list, arg, pos); the list is changed in place *)
InsertArgument(arg, pos) ==
    /\ Len(arg_list) < MaxLen
    /\ arg_list' = insertArgument(arg_list, arg, pos)
    /\ call' = [done |-> TRUE, before |-> arg_list, arg |-> arg, pos |-> pos]
    /\ UNCHANGED <<flatVars, asmVars, extVars>>

NextInsert == \E arg \in InsArgs, pos \in Positions : InsertArgument(arg, pos)

SpecInsert == InitInsert /\ [][NextInsert]_vars

----------------------------------------------------------------------------
(* The assembly specification: one job, from a module template and an IO   *)
(* JSON to the command returned by createProgramArguments.                 *)

MaxAlt == 2

(* the sequences of at most n distinct elements of S *)
RECURSIVE DistinctSeqs(_, _)
DistinctSeqs(S, n) ==
    IF n = 0 THEN { <<>> }
    ELSE LET shorter == DistinctSeqs(S, n - 1)
         IN shorter \cup
            UNION { { Append(q, x) : x \in S \ { q[i] : i \in 1..Len(q) } } :
                      q \in { r \in shorter : Len(r) = n - 1 } }

BedSlot(position) == Slot(s_file, s_BED, position, s_L)
FastaSlot(type, position) == Slot(type, s_FASTA, position, <<>>)

Template(subname, arguments, in_position, in_prefix, out_position, alternates) ==
    [program_name |-> s_bwa,
     program_subname |-> subname,
     program_arguments |-> arguments,
     program_input |-> <<Slot(s_file, s_FASTQ, in_position, in_prefix),
                         Slot(s_file, s_FASTQ_GZ, in_position, in_prefix)>>,
     program_output |-> <<Slot(s_file, s_SAM, out_position, s_o)>>,
     alternate_inputs |-> alternates,
     alternate_outputs |-> <<Slot(s_file, s_LOG, -1, s_g)>>,
     missing |-> {}]

(* the templates of the docstrings, with the primary slots varied ...      *)
PrimaryTemplates ==
    { Template(subname, arguments, in_position, in_prefix, out_position,
               <<BedSlot(0), FastaSlot(s_file, -2)>>) :
        subname \in { <<>>, s_mem }, arguments \in { <<>>, s_base },
        in_position \in { -1, 0, -99, -100 }, in_prefix \in { <<>>, s_i },
        out_position \in { 0, -1 } }

(* ... and with the alternate input slots varied, in both orders           *)
AlternateTemplates ==
    { Template(s_mem, s_base, -1, s_i, 0, alternates) :
        alternates \in
            UNION { { <<BedSlot(p), FastaSlot(t, q)>>, <<FastaSlot(t, q), BedSlot(p)>> } :
                      p \in { 0, -2 }, q \in { -2, 0 }, t \in { s_file, s_folder } } }

(* ... and one whose alternate inputs have two slots of the same file type *)
TwoBedSlotsTemplate ==
    Template(s_mem, s_base, -1, s_i, 0,
             <<BedSlot(0), FastaSlot(s_file, -2), Slot(s_file, s_BED, -1, <<>>)>>)

(* ... and templates that lack one of the four slot lists (missing names   *)
(* the key the template has not)                                           *)
Without(t, key) ==
    [program_name |-> t.program_name,
     program_subname |-> t.program_subname,
     program_arguments |-> t.program_arguments,
     program_input |-> IF key = "program_input" THEN <<>> ELSE t.program_input,
     program_output |-> IF key = "program_output" THEN <<>> ELSE t.program_output,
     alternate_inputs |-> IF key = "alternate_inputs" THEN <<>> ELSE t.alternate_inputs,
     alternate_outputs |-> IF key = "alternate_outputs" THEN <<>> ELSE t.alternate_outputs,
     missing |-> { key }]

IncompleteTemplates ==
    { Without(Template(s_mem, s_base, -1, s_i, 0, <<BedSlot(0), FastaSlot(s_file, -2)>>), key) :
        key \in { "program_input", "program_output", "alternate_inputs", "alternate_outputs" } }

(* ... and one whose primary input is a folder, of no file type            *)
FolderInputTemplate ==
    [Template(s_mem, s_base, -1, s_i, 0, <<BedSlot(0), FastaSlot(s_file, -2)>>)
        EXCEPT !.program_input = <<Slot(s_folder, <<>>, -1, s_i)>>]

(* ... and one whose primary input goes before the base token of index 2  *)
Templates ==
    PrimaryTemplates \cup AlternateTemplates \cup { TwoBedSlotsTemplate }
        \cup IncompleteTemplates \cup { FolderInputTemplate }
        \cup { Template(s_mem, s_base, 2, s_i, -1, <<BedSlot(0), FastaSlot(s_file, -2)>>) }

IO(input, output, alternate_inputs, alternate_outputs, arguments, dryrun) ==
    [input |-> Lst(StrList(input)), output |-> Lst(StrList(output)),
     alternate_inputs |-> StrList(alternate_inputs),
     alternate_outputs |-> StrList(alternate_outputs),
     program_arguments |-> arguments, dryrun |-> dryrun,
     keys |-> {}, inputdir |-> <<>>, outputdir |-> <<>>]

(* IO JSONs whose primary files match a slot ...                           *)
MatchedIOs ==
    { IO(input, <<f_sam>>, alternates, logs, <<>>, dryrun) :
        input \in { <<f_fastq>>, <<f_fastq_gz1, f_fastq_gz2>> },
        alternates \in DistinctSeqs({ f_fasta, f_bed, f_alt_txt }, MaxAlt),
        logs \in { <<>>, <<f_log>> },
        dryrun \in BOOLEAN }

(* ... and IO JSONs with a primary file no slot matches, or with           *)
(* program arguments of their own ('-x', '-S  -t 4' with two spaces, and   *)
(* '--no-dryrun')                                                          *)
OtherIOs ==
    { IO(<<f_in_txt>>, <<f_sam>>, <<f_fasta>>, <<>>, <<>>, TRUE),
      IO(<<f_fastq>>, <<f_out_txt>>, <<f_fasta>>, <<>>, <<>>, TRUE),
      IO(<<f_fastq>>, <<f_sam>>, <<f_bed>>, <<>>, <<"-", "x">>, FALSE),
      IO(<<f_fastq>>, <<f_sam>>, <<>>, <<>>,
         <<"-", "S", " ", " ", "-", "t", " ", "4">>, FALSE),
      IO(<<f_fastq>>, <<f_sam>>, <<>>, <<>>,
         <<"-", "-", "n", "o", "-", "d", "r", "y", "r", "u", "n">>, FALSE) }

(* IO JSONs that name the directories of the primary files with the keys   *)
(* inputdir and outputdir, as a run-arguments file may ...                 *)
WithDirectories(io, keys, inputdir, outputdir) ==
    [io EXCEPT !.keys = keys, !.inputdir = inputdir, !.outputdir = outputdir]

DirectoryIOs ==
    { WithDirectories(IO(<<BaseName(f_fastq)>>, <<f_sam>>, <<>>, <<>>, <<>>, FALSE),
                      { "inputdir" }, FolderOf(f_fastq), <<>>),
      WithDirectories(IO(<<BaseName(f_fastq)>>, <<f_sam>>, <<>>, <<>>, <<>>, FALSE),
                      { "inputdir" }, <<>>, <<>>),
      WithDirectories(IO(<<f_fastq>>, <<f_sam>>, <<>>, <<>>, <<>>, FALSE),
                      { "inputdir" }, FolderOf(f_sam), <<>>),
      WithDirectories(IO(<<f_fastq>>, <<BaseName(f_sam)>>, <<>>, <<>>, <<>>, FALSE),
                      { "outputdir" }, <<>>, FolderOf(f_sam)),
      WithDirectories(IO(<<f_fastq>>, <<BaseName(f_sam)>>, <<>>, <<>>, <<>>, FALSE),
                      { "outputdir" }, <<>>, <<>>),
      WithDirectories(IO(<<BaseName(f_fastq)>>, <<BaseName(f_sam)>>, <<f_bed>>, <<>>,
                         <<>>, TRUE),
                      { "inputdir", "outputdir" }, FolderOf(f_fastq), FolderOf(f_sam)) }

(* ... and IO JSONs whose primary input is a file name without a folder, a *)
(* path with a single '/', a folder, and the empty list                    *)
UnusualInputIOs ==
    { IO(<<BaseName(f_fastq)>>, <<f_sam>>, <<>>, <<>>, <<>>, FALSE),
      IO(<<SubSeq(f_fastq, 1, 4) \o BaseName(f_fastq)>>, <<f_sam>>, <<>>, <<>>, <<>>, FALSE),
      IO(<<FolderOf(f_fastq)>>, <<f_sam>>, <<>>, <<>>, <<>>, FALSE),
      IO(<<>>, <<f_sam>>, <<>>, <<>>, <<>>, FALSE) }

IOs == MatchedIOs \cup OtherIOs \cup DirectoryIOs \cup UnusualInputIOs

InitAssemble ==
    /\ template \in Templates
    /\ io_json \in IOs
    /\ mi_json = NoInstance
    /\ pargs_list = <<>>
    /\ pc = "start"
    /\ alt_i = 1
    /\ order = <<>>
    /\ command = EmptyStr
    /\ InsIdle
    /\ FlatIdle
    /\ ExtIdle

(* an entry of order: which insertArgument call, with what and where *)
SlotCall(category, slot) ==
    [category |-> category, io |-> slot.io, position |-> slot.position,
     prefix |-> slot.prefix]
NameCall(category, name) ==
    [category |-> category, io |-> Str(name), position |-> 0, prefix |-> <<>>]

CreateModuleInstanceJSON ==
    /\ pc = "start"
    /\ mi_json' = createModuleInstanceJSON(template, io_json)
    /\ pc' = IF mi_json'.raised THEN "error" ELSE "split"
    /\ UNCHANGED <<template, io_json, pargs_list, alt_i, order, command, insVars, flatVars, extVars>>

(* Variant of SplitProgramArguments in which the list lives on between     *)
(* calls and the base arguments are added to what it holds.                *)
SplitProgramArguments_Accumulates ==
    /\ pc = "split"
    /\ pargs_list' = pargs_list \o StrList(Split(mi_json.program_arguments, " "))
    /\ pc' = "input"
    /\ UNCHANGED <<template, io_json, mi_json, alt_i, order, command, insVars, flatVars, extVars>>

(* pargs_list = mi_json['program_arguments'].split(' ') *)
SplitProgramArguments ==
    /\ pc = "split"
    /\ pargs_list' = StrList(Split(mi_json.program_arguments, " "))
    /\ pc' = "input"
    /\ UNCHANGED <<template, io_json, mi_json, alt_i, order, command, insVars, flatVars, extVars>>

(* input_json['input_type'] on an empty dict raises KeyError *)
PrimaryInputKeyError ==
    /\ pc = "input"
    /\ ~mi_json.program_input.resolved
    /\ pc' = "error"
    /\ UNCHANGED <<template, io_json, mi_json, pargs_list, alt_i, order, command,
                   insVars, flatVars, extVars>>

(* Variant of InsertPrimaryInput that skips a slot whose position is -100   *)
(* altogether: nothing is staged and insertArgument is not called.         *)
InsertPrimaryInput_Unstaged ==
    /\ pc = "input"
    /\ mi_json.program_input.resolved
    /\ IF StagingRaises(mi_json.program_input)
       THEN /\ pc' = "error"
            /\ UNCHANGED <<pargs_list, order>>
            /\ downloads' = Append(downloads, DownloadCall(mi_json.program_input))
       ELSE /\ pargs_list' = insertArgument(pargs_list,
                                            InputArgument(mi_json.program_input),
                                            mi_json.program_input.position)
            /\ order' = IF mi_json.program_input.position = -100 THEN order
                        ELSE Append(order, SlotCall("program_input", mi_json.program_input))
            /\ downloads' = IF mi_json.program_input.position = -100 THEN downloads
                            ELSE Append(downloads, DownloadCall(mi_json.program_input))
            /\ pc' = "output"
    /\ UNCHANGED <<template, io_json, mi_json, alt_i, command, insVars, flatVars,
                   args, mock, raised, subprocesses, uploads, runs, previous,
                   typeVars, ioVars, auxVars>>

(* the primary input is downloaded and put into the list; an exception of  *)
(* the download ends the call                                              *)
InsertPrimaryInput ==
    /\ pc = "input"
    /\ mi_json.program_input.resolved
    /\ IF StagingRaises(mi_json.program_input)
       THEN /\ pc' = "error"
            /\ UNCHANGED <<pargs_list, order>>
            /\ downloads' = Append(downloads, DownloadCall(mi_json.program_input))
       ELSE /\ pargs_list' = insertArgument(pargs_list,
                                            InputArgument(mi_json.program_input),
                                            mi_json.program_input.position)
            /\ order' = Append(order, SlotCall("program_input", mi_json.program_input))
            /\ downloads' = Append(downloads, DownloadCall(mi_json.program_input))
            /\ pc' = "output"
    /\ UNCHANGED <<template, io_json, mi_json, alt_i, command, insVars, flatVars,
                   args, mock, raised, subprocesses, uploads, runs, previous,
                   typeVars, ioVars, auxVars>>

(* output_json['output_prefix'] on an empty dict raises KeyError *)
PrimaryOutputKeyError ==
    /\ pc = "output"
    /\ ~mi_json.program_output.resolved
    /\ pc' = "error"
    /\ UNCHANGED <<template, io_json, mi_json, pargs_list, alt_i, order, command,
                   insVars, flatVars, extVars>>

InsertPrimaryOutput ==
    /\ pc = "output"
    /\ mi_json.program_output.resolved
    /\ pargs_list' = insertArgument(pargs_list, OutputArgument(mi_json.program_output),
                                    mi_json.program_output.position)
    /\ order' = Append(order, SlotCall("program_output", mi_json.program_output))
    /\ pc' = AfterOutput(mi_json)
    /\ UNCHANGED <<template, io_json, mi_json, alt_i, command, insVars, flatVars, extVars>>

(* Variant of InsertAlternateInput that takes the alternate off the        *)
(* instance's list as it adds it (mi_json['alternate_inputs'].pop(0)).     *)
InsertAlternateInput_Consumes ==
    /\ pc = "alternate_inputs"
    /\ LET alt_input_json == Head(mi_json.alternate_inputs)
           last == Len(mi_json.alternate_inputs) = 1
       IN /\ downloads' = Append(downloads, DownloadCall(alt_input_json))
          /\ IF StagingRaises(alt_input_json)
             THEN /\ pc' = "error"
                  /\ UNCHANGED <<pargs_list, order, mi_json>>
             ELSE /\ pargs_list' = insertArgument(pargs_list, InputArgument(alt_input_json),
                                                  alt_input_json.position)
                  /\ order' = Append(order, SlotCall("alternate_input", alt_input_json))
                  /\ mi_json' = [mi_json EXCEPT !.alternate_inputs = Tail(@)]
                  /\ pc' = IF last THEN AfterAlternateInputs(mi_json) ELSE pc
    /\ UNCHANGED <<template, io_json, alt_i, command, insVars, flatVars,
                   args, mock, raised, subprocesses, uploads, runs, previous,
                   typeVars, ioVars, auxVars>>

(* one pass of: for alt_input_json in mi_json['alternate_inputs'] *)
InsertAlternateInput ==
    /\ pc = "alternate_inputs"
    /\ LET alt_input_json == mi_json.alternate_inputs[alt_i]
           last == alt_i = Len(mi_json.alternate_inputs)
       IN /\ downloads' = Append(downloads, DownloadCall(alt_input_json))
          /\ IF StagingRaises(alt_input_json)
             THEN /\ pc' = "error"
                  /\ UNCHANGED <<pargs_list, order, alt_i>>
             ELSE /\ pargs_list' = insertArgument(pargs_list, InputArgument(alt_input_json),
                                                  alt_input_json.position)
                  /\ order' = Append(order, SlotCall("alternate_input", alt_input_json))
                  /\ alt_i' = IF last THEN 1 ELSE alt_i + 1
                  /\ pc' = IF last THEN AfterAlternateInputs(mi_json) ELSE pc
    /\ UNCHANGED <<template, io_json, mi_json, command, insVars, flatVars,
                   args, mock, raised, subprocesses, uploads, runs, previous,
                   typeVars, ioVars, auxVars>>

(* one pass of: for alt_output_json in mi_json['alternate_outputs'] *)
InsertAlternateOutput ==
    /\ pc = "alternate_outputs"
    /\ LET alt_output_json == mi_json.alternate_outputs[alt_i]
           last == alt_i = Len(mi_json.alternate_outputs)
       IN /\ pargs_list' = insertArgument(pargs_list, OutputArgument(alt_output_json),
                                          alt_output_json.position)
          /\ order' = Append(order, SlotCall("alternate_output", alt_output_json))
          /\ alt_i' = IF last THEN 1 ELSE alt_i + 1
          /\ pc' = IF last THEN "subname" ELSE pc
    /\ UNCHANGED <<template, io_json, mi_json, command, insVars, flatVars, extVars>>

InsertProgramSubname ==
    /\ pc = "subname"
    /\ pargs_list' = insertArgument(pargs_list, Str(mi_json.program_subname), 0)
    /\ order' = Append(order, NameCall("program_subname", mi_json.program_subname))
    /\ pc' = "name"
    /\ UNCHANGED <<template, io_json, mi_json, alt_i, command, insVars, flatVars, extVars>>

InsertProgramName ==
    /\ pc = "name"
    /\ pargs_list' = insertArgument(pargs_list, Str(mi_json.program_name), 0)
    /\ order' = Append(order, NameCall("program_name", mi_json.program_name))
    /\ pc' = "return"
    /\ UNCHANGED <<template, io_json, mi_json, alt_i, command, insVars, flatVars, extVars>>

(* the values of rtype tried: 'str', 'list', 'STRING', 'st' *)
ReturnTypes ==
    { <<"s", "t", "r">>, <<"l", "i", "s", "t">>,
      <<"S", "T", "R", "I", "N", "G">>, <<"s", "t">> }

(* flatten, join when rtype[0:3].lower() is 'str', add the dry-run marker, *)
(* return: to the caller, or to initProgram, which goes on to the job file *)
ReturnProgramArguments(rtype) ==
    /\ pc = "return"
    /\ command' = ReturnValue(pargs_list, rtype, mi_json.dryrun)
    /\ pc' = IF args = NoArgs THEN "done" ELSE "job_json"
    /\ UNCHANGED <<template, io_json, mi_json, pargs_list, alt_i, order, insVars, flatVars, extVars>>

NextAssemble ==
    \/ CreateModuleInstanceJSON
    \/ SplitProgramArguments
    \/ PrimaryInputKeyError
    \/ InsertPrimaryInput
    \/ PrimaryOutputKeyError
    \/ InsertPrimaryOutput
    \/ InsertAlternateInput
    \/ InsertAlternateOutput
    \/ InsertProgramSubname
    \/ InsertProgramName
    \/ \E rtype \in ReturnTypes : ReturnProgramArguments(rtype)

SpecAssemble == InitAssemble /\ [][NextAssemble]_vars

----------------------------------------------------------------------------
(* Properties of insertArgument (checked under SpecInsert) *)

(* after is before with arg put at 0-based index idx, nothing else changed *)
IsInsertionAt(before, after, idx, arg) ==
    /\ Len(after) = Len(before) + 1
    /\ idx >= 0
    /\ idx <= Len(before)
    /\ after[idx + 1] = arg
    /\ \A i \in 1..idx : after[i] = before[i]
    /\ \A i \in (idx + 1)..Len(before) : after[i + 1] = before[i]

Max0(n) == IF n < 0 THEN 0 ELSE n

(* C1: with 0 <= n <= len(list), insertArgument(list, arg, n) returns a    *)
(* list one longer, with arg at index n and the original elements around   *)
(* it in their original order.                                             *)
C1_AbsoluteInsert ==
    (call.done /\ call.pos >= 0 /\ call.pos <= Len(call.before))
        => IsInsertionAt(call.before, arg_list, call.pos, call.arg)

C1_Witness ==
    /\ call.done
    /\ call.before = BaseList(5)
    /\ call.arg = T("a")
    /\ call.pos = 2
    /\ arg_list = <<T("1"), T("2"), T("a"), T("3"), T("4"), T("5")>>

(* C2 as claimed: with -99 <= p < -1, insertArgument inserts arg at index  *)
(* length + p + 2, length being the length before the insertion.           *)
C2_Original ==
    (call.done /\ call.pos >= -99 /\ call.pos < -1)
        => IsInsertionAt(call.before, arg_list,
                         Len(call.before) + call.pos + 2, call.arg)

(* C2 amended: with -98 <= p < -1, insertArgument inserts arg at index     *)
(* max(0, length + p + 1).                                                 *)
C2_EndRelativeIndex ==
    (call.done /\ call.pos >= -98 /\ call.pos < -1)
        => IsInsertionAt(call.before, arg_list,
                         Max0(Len(call.before) + call.pos + 1), call.arg)

C2_Witness ==
    /\ call.done
    /\ call.before = BaseList(5)
    /\ call.arg = T("a")
    /\ call.pos = -3
    /\ arg_list = <<T("1"), T("2"), T("3"), T("a"), T("4"), T("5")>>

(* C3: with -98 <= p <= -1 and len(list) >= -p-1, exactly -p-1 of the      *)
(* original elements follow arg in the result, and the original elements   *)
(* keep their relative order.                                              *)
C3_FollowersCount ==
    (call.done /\ call.pos >= -98 /\ call.pos <= -1
               /\ Len(call.before) >= (0 - call.pos) - 1)
        => /\ Len(arg_list) = Len(call.before) + 1
           /\ \E k \in 1..Len(arg_list) :
                /\ arg_list[k] = call.arg
                /\ Len(arg_list) - k = (0 - call.pos) - 1
                /\ IsInsertionAt(call.before, arg_list, k - 1, call.arg)

C3_Witness ==
    /\ call.done
    /\ call.before = BaseList(5)
    /\ call.arg = T("a")
    /\ call.pos = -2
    /\ arg_list = <<T("1"), T("2"), T("3"), T("4"), T("a"), T("5")>>

(* C4: insertArgument(list, arg, -100) returns the list unchanged, for     *)
(* every list and every arg.                                               *)
C4_SuppressedUnchanged ==
    (call.done /\ call.pos = -100) => arg_list = call.before

C4_Witness ==
    /\ call.done
    /\ call.pos = -100
    /\ call.before = BaseList(5)
    /\ IsList(call.arg)
    /\ arg_list = BaseList(5)

(* C5: for every p with -99 <= p <= -2 the length grows by exactly one,    *)
(* and among the positions >= -100 only -100 inserts nothing.              *)
C5_OnlyMinus100Suppresses ==
    (call.done /\ call.pos >= -100)
        => /\ (call.pos >= -99 /\ call.pos <= -2)
                => Len(arg_list) = Len(call.before) + 1
           /\ (Len(arg_list) = Len(call.before)) => call.pos = -100

----------------------------------------------------------------------------
(* The flattenList specification: the argument is drawn from the nested    *)
(* lists with at most MaxNodes nodes (strings and lists) below the top     *)
(* list, and one action applies flattenList to it.                         *)

MaxNodes == 5

LeafValues == { EmptyStr, T("a"), T("b") }

RECURSIVE Forest(_)
RECURSIVE Tree(_)
Tree(n) ==
    (IF n = 1 THEN LeafValues ELSE {}) \cup { Lst(f) : f \in Forest(n - 1) }
Forest(n) ==
    IF n = 0 THEN { <<>> }
    ELSE UNION { { <<t>> \o f : t \in Tree(k), f \in Forest(n - k) } : k \in 1..n }

NestedInputs == UNION { Forest(n) : n \in 0..MaxNodes }

InitFlatten ==
    /\ arg_list_2d \in NestedInputs
    /\ flat_list = <<>>
    /\ flattened = FALSE
    /\ InsIdle
    /\ AsmIdle
    /\ ExtIdle

FlattenList ==
    /\ ~flattened
    /\ flat_list' = flattenList(arg_list_2d)
    /\ flattened' = TRUE
    /\ UNCHANGED <<arg_list_2d, insVars, asmVars, extVars>>

NextFlatten == FlattenList

SpecFlatten == InitFlatten /\ [][NextFlatten]_vars

----------------------------------------------------------------------------
(* Properties of flattenList (checked under SpecFlatten) *)

(* the leaves of a nested list, depth first, left to right *)
RECURSIVE Leaves(_)
Leaves(list) ==
    IF list = <<>> THEN <<>>
    ELSE (IF IsList(Head(list)) THEN Leaves(Head(list).items) ELSE <<Head(list)>>)
         \o Leaves(Tail(list))

(* the number of list levels, the top list counted as the first *)
RECURSIVE Depth(_)
Depth(list) ==
    IF list = <<>> THEN 1
    ELSE LET h == IF IsList(Head(list)) THEN 1 + Depth(Head(list).items) ELSE 1
             t == Depth(Tail(list))
         IN IF h > t THEN h ELSE t

(* a can be obtained from b by deleting elements *)
RECURSIVE IsSubsequence(_, _)
IsSubsequence(a, b) ==
    IF a = <<>> THEN TRUE
    ELSE IF b = <<>> THEN FALSE
    ELSE IF Head(a) = Head(b) THEN IsSubsequence(Tail(a), Tail(b))
    ELSE IsSubsequence(a, Tail(b))

NotEmptyStr(v) == v # EmptyStr
OnlyLeaves(list) == \A i \in 1..Len(list) : ~IsList(list[i])

(* C9 as claimed: for input nested to any depth, four or more levels       *)
(* included, no list is an element of the result of flattenList.           *)
C9_Original == flattened => OnlyLeaves(flat_list)

(* C9 amended: for input nested at most three levels deep the result of    *)
(* flattenList holds only leaf values, in depth-first left-to-right order; *)
(* for input nested four or more levels deep a list nested at the fourth   *)
(* level is left as an element of the result.                              *)
C9_FlatUpToThreeLevels ==
    flattened =>
        /\ Depth(arg_list_2d) <= 3
             => /\ OnlyLeaves(flat_list)
                /\ IsSubsequence(flat_list, Leaves(arg_list_2d))
        /\ Depth(arg_list_2d) >= 4 => ~OnlyLeaves(flat_list)

C9_Witness ==
    /\ flattened
    /\ arg_list_2d = <<Lst(<<T("b"), Lst(<<T("a")>>)>>), T("b")>>
    /\ flat_list = <<T("b"), T("a"), T("b")>>

(* C10: for every list nested at most three levels deep, flattenList       *)
(* returns the leaves in depth-first left-to-right order with every        *)
(* empty-string leaf removed and every other leaf kept exactly once.       *)
C10_LeavesWithoutEmpty ==
    (flattened /\ Depth(arg_list_2d) <= 3)
        => flat_list = SelectSeq(Leaves(arg_list_2d), NotEmptyStr)

C10_Witness ==
    /\ flattened
    /\ arg_list_2d = <<Lst(<<T("a"), Lst(<<EmptyStr, T("b")>>)>>)>>
    /\ flat_list = <<T("a"), T("b")>>

----------------------------------------------------------------------------
(* Properties of the assembly (checked under SpecAssemble) *)

Rank(category) ==
    CASE category = "program_input" -> 1
      [] category = "program_output" -> 2
      [] category = "alternate_input" -> 3
      [] category = "alternate_output" -> 4
      [] category = "program_subname" -> 5
      [] category = "program_name" -> 6

CallsOf(category) == SelectSeq(order, LAMBDA e : e.category = category)

(* the calls are made category by category, in the fixed order, the       *)
(* alternates being the only categories with more than one call            *)
CategoryOrder ==
    /\ \A i, j \in 1..Len(order) :
         i < j => /\ Rank(order[i].category) <= Rank(order[j].category)
                  /\ Rank(order[i].category) = Rank(order[j].category)
                       => order[i].category \in { "alternate_input", "alternate_output" }
    /\ pc \in { "return", "done" }
         => \A c \in { "program_input", "program_output",
                       "program_subname", "program_name" } : Len(CallsOf(c)) = 1

(* the file of the IO JSON and the slot of the template a call is for *)
FileIndex(e, files) == CHOOSE i \in 1..Len(files) : getFileOnly(files[i]) = e.io
SlotIndex(e, slots) ==
    CHOOSE j \in 1..Len(slots) :
        /\ slots[j].position = e.position
        /\ slots[j].prefix = e.prefix
        /\ TypeMatches(e.io, slots[j])

FileMajor(calls, files, slots) ==
    \A a, b \in 1..Len(calls) :
        a < b => \/ FileIndex(calls[a], files) < FileIndex(calls[b], files)
                 \/ /\ FileIndex(calls[a], files) = FileIndex(calls[b], files)
                    /\ SlotIndex(calls[a], slots) < SlotIndex(calls[b], slots)

SlotMajor(calls, files, slots) ==
    \A a, b \in 1..Len(calls) :
        a < b => \/ SlotIndex(calls[a], slots) < SlotIndex(calls[b], slots)
                 \/ /\ SlotIndex(calls[a], slots) = SlotIndex(calls[b], slots)
                    /\ FileIndex(calls[a], files) < FileIndex(calls[b], files)

(* every (file, matching slot) pair has got its call *)
AllMatchesCalled(calls, files, slots) ==
    { <<FileIndex(calls[a], files), SlotIndex(calls[a], slots)>> : a \in 1..Len(calls) }
        = { m \in (1..Len(files)) \X (1..Len(slots)) : TypeMatches(files[m[1]], slots[m[2]]) }

(* C6 as claimed: the calls are made in the fixed category order, and the  *)
(* alternate inputs (and outputs) are inserted in the order of their slots *)
(* in the template, whatever the order of the files in the IO JSON.        *)
C6_Original ==
    /\ CategoryOrder
    /\ SlotMajor(CallsOf("alternate_input"), io_json.alternate_inputs,
                 template.alternate_inputs)
    /\ SlotMajor(CallsOf("alternate_output"), io_json.alternate_outputs,
                 template.alternate_outputs)

(* C6 amended: the calls are made in the fixed category order, and the     *)
(* alternate inputs (and outputs) are inserted in the order their files    *)
(* are listed in the IO JSON, whatever the order of the slots in the       *)
(* template: a file once per slot that matches it, in template order for   *)
(* the same file, and a file no slot matches not at all.                   *)
C6_InsertionOrder ==
    /\ CategoryOrder
    /\ FileMajor(CallsOf("alternate_input"), io_json.alternate_inputs,
                 template.alternate_inputs)
    /\ FileMajor(CallsOf("alternate_output"), io_json.alternate_outputs,
                 template.alternate_outputs)
    /\ pc \in { "return", "done" }
         => /\ AllMatchesCalled(CallsOf("alternate_input"), io_json.alternate_inputs,
                                template.alternate_inputs)
            /\ AllMatchesCalled(CallsOf("alternate_output"), io_json.alternate_outputs,
                                template.alternate_outputs)

C6_Witness ==
    /\ pc = "done"
    /\ template.alternate_inputs = <<BedSlot(0), FastaSlot(s_file, -2)>>
    /\ io_json.alternate_inputs = <<Str(f_fasta), Str(f_bed)>>
    /\ io_json.alternate_outputs = <<Str(f_log)>>
    /\ [i \in 1..Len(order) |-> order[i].category]
         = <<"program_input", "program_output", "alternate_input", "alternate_input",
             "alternate_output", "program_subname", "program_name">>
    /\ order[3].io = Str(BaseName(f_fasta))
    /\ order[4].io = Str(BaseName(f_bed))

(* the tokens of the returned command, without the dry-run marker *)
CommandTokens ==
    LET marker == IF mi_json.dryrun THEN Len(DRYRUN_SUFFIX) ELSE 0
    IN IF IsList(command)
       THEN [i \in 1..(Len(command.items) - marker) |-> command.items[i].s]
       ELSE Split(SubSeq(command.s, 1, Len(command.s) - marker), " ")

(* C7: when the program name is not empty, the first token of the command  *)
(* returned by createProgramArguments is the program name and, when the    *)
(* subprogram name is not empty, the second token is the subprogram name,  *)
(* whatever the positions and prefixes of the slots and the base arguments.*)
C7_NameFirst ==
    (pc = "done" /\ mi_json.program_name # <<>>)
        => /\ Len(CommandTokens) >= 1
           /\ CommandTokens[1] = mi_json.program_name
           /\ mi_json.program_subname # <<>>
                => /\ Len(CommandTokens) >= 2
                   /\ CommandTokens[2] = mi_json.program_subname

C7_Witness ==
    /\ pc = "done"
    /\ IsList(command)
    /\ mi_json.program_subname = s_mem
    /\ mi_json.program_input.position = 0
    /\ mi_json.program_output.position = 0
    /\ Len(mi_json.alternate_inputs) = 2
    /\ CommandTokens[1] = s_bwa
    /\ CommandTokens[2] = s_mem
    /\ CommandTokens[3] = s_L

(* the slots a file matches *)
SlotsFor(file, slots) == { j \in 1..Len(slots) : TypeMatches(file, slots[j]) }
SlotFor(file, slots) == slots[CHOOSE j \in SlotsFor(file, slots) : TRUE]

EveryFileMatchesOneSlot ==
    /\ Cardinality(SlotsFor(io_json.input, template.program_input)) = 1
    /\ Cardinality(SlotsFor(io_json.output, template.program_output)) = 1
    /\ \A i \in 1..Len(io_json.alternate_inputs) :
         Cardinality(SlotsFor(io_json.alternate_inputs[i], template.alternate_inputs)) = 1
    /\ \A i \in 1..Len(io_json.alternate_outputs) :
         Cardinality(SlotsFor(io_json.alternate_outputs[i], template.alternate_outputs)) = 1

(* the supplied files, each with the slot it matches *)
SuppliedSlots ==
    <<[file |-> io_json.input, slot |-> SlotFor(io_json.input, template.program_input),
       staged |-> TRUE]>>
    \o <<[file |-> io_json.output, slot |-> SlotFor(io_json.output, template.program_output),
          staged |-> FALSE]>>
    \o [i \in 1..Len(io_json.alternate_inputs) |->
          [file |-> io_json.alternate_inputs[i],
           slot |-> SlotFor(io_json.alternate_inputs[i], template.alternate_inputs),
           staged |-> TRUE]]
    \o [i \in 1..Len(io_json.alternate_outputs) |->
          [file |-> io_json.alternate_outputs[i],
           slot |-> SlotFor(io_json.alternate_outputs[i], template.alternate_outputs),
           staged |-> FALSE]]

RECURSIVE SumOver(_, _)
SumOver(Count(_), seq) ==
    IF seq = <<>> THEN 0 ELSE Count(Head(seq)) + SumOver(Count, Tail(seq))

(* the base arguments in force, and the number of their tokens *)
BaseArguments ==
    IF io_json.program_arguments # <<>> THEN io_json.program_arguments
    ELSE template.program_arguments
BaseTokenCount ==
    Len(SelectSeq(Split(BaseArguments, " "), LAMBDA piece : piece # <<>>))

NameTokenCount == 2 - (IF template.program_subname = <<>> THEN 1 ELSE 0)

(* C8 as claimed: the number of tokens is base tokens + 2 x (resolved,     *)
(* non-suppressed slots) + 2, minus 1 if the subprogram name is empty.     *)
C8_Original ==
    (pc = "done" /\ EveryFileMatchesOneSlot)
        => Len(CommandTokens)
             = BaseTokenCount
               + SumOver(LAMBDA x : IF x.slot.position # -100 THEN 2 ELSE 0, SuppliedSlots)
               + NameTokenCount

(* the positions at which insertArgument inserts *)
InsertingPosition(position) ==
    position = -1 \/ position >= 0 \/ (position >= -98 /\ position <= -2)

(* the number of paths a slot's value holds: the staged folder, or one     *)
(* path per file                                                           *)
PathCount(x) ==
    IF x.staged /\ Lower(x.slot.type) = s_folder THEN 1
    ELSE IF IsList(x.file) THEN Len(x.file.items) ELSE 1

SlotTokenCount(x) ==
    IF InsertingPosition(x.slot.position)
    THEN PathCount(x) + (IF x.slot.prefix # <<>> THEN 1 ELSE 0)
    ELSE 0

(* C8 amended: when every supplied file matches exactly one slot, the      *)
(* number of tokens of the command (without the dry-run marker) is the     *)
(* number of base-argument tokens, plus for each resolved slot whose       *)
(* position is one at which insertArgument inserts (-1, 0 or more, or      *)
(* -98..-2) the number of its paths and 1 if its prefix is not empty,      *)
(* plus 2, minus 1 if the subprogram name is empty.                        *)
C8_TokenCount ==
    (pc = "done" /\ EveryFileMatchesOneSlot)
        => Len(CommandTokens)
             = BaseTokenCount + SumOver(SlotTokenCount, SuppliedSlots) + NameTokenCount

C8_Witness ==
    /\ pc = "done"
    /\ EveryFileMatchesOneSlot
    /\ io_json.input = Lst(<<Str(f_fastq_gz1), Str(f_fastq_gz2)>>)
    /\ io_json.alternate_inputs = <<Str(f_fasta), Str(f_bed)>>
    /\ template.program_input[1].prefix = s_i
    /\ template.program_input[1].position = -1
    /\ template.program_subname = <<>>
    /\ template.program_arguments = s_base
    /\ Len(CommandTokens) = 12

(* the command createProgramArguments returns for the same pargs_list when *)
(* the instance has no dry-run key                                         *)
CommandWithoutDryRun ==
    ReturnValue(pargs_list,
                IF IsList(command) THEN <<"l", "i", "s", "t">> ELSE <<"s", "t", "r">>,
                FALSE)


(* C11: with dry-run set, the returned command is the command returned     *)
(* without dry-run followed by exactly one marker token '-dryrun': the     *)
(* list result gains one last element '-dryrun', the string result the     *)
(* suffix ' -dryrun'.                                                      *)
C11_DryRunMarker ==
    (pc = "done" /\ mi_json.dryrun)
        => IF IsList(command)
           THEN command = Lst(Append(CommandWithoutDryRun.items, Str(DRYRUN_MARKER)))
           ELSE command = Str(CommandWithoutDryRun.s \o DRYRUN_SUFFIX)

----------------------------------------------------------------------------
(* The createIOJSON specification: one call on a run-arguments JSON *)

s_sample == <<"S", "1">>
s_no == <<"n", "o">>

Keys(has_sampleid, has_inputdir, has_outputdir, has_alternates, has_dryrun) ==
    { "input", "output" }
        \cup (IF has_sampleid THEN { "sampleid" } ELSE {})
        \cup (IF has_inputdir THEN { "inputdir" } ELSE {})
        \cup (IF has_outputdir THEN { "outputdir" } ELSE {})
        \cup (IF has_alternates THEN { "alternate_inputs" } ELSE {})
        \cup (IF has_dryrun THEN { "dryrun" } ELSE {})

RunInputs == { f_fastq, BaseName(f_fastq), BaseName(f_fastq_gz1) \o <<",">> \o f_fastq_gz2 }
RunOutputs == { f_sam, BaseName(f_sam), RStrip(FolderOf(f_sam), "/") }

RunArgsInputs ==
    { RunArgs(Keys(has_sampleid, has_inputdir, has_outputdir, has_alternates, has_dryrun),
              IF has_sampleid THEN s_sample ELSE <<>>,
              input,
              IF has_inputdir THEN RStrip(FolderOf(f_fastq), "/") ELSE <<>>,
              output,
              IF has_outputdir THEN FolderOf(f_sam) ELSE <<>>,
              IF has_alternates THEN BaseName(f_fasta) \o <<",">> \o f_bed ELSE <<>>,
              IF has_dryrun THEN dryrun ELSE <<>>) :
        has_sampleid \in BOOLEAN, has_inputdir \in BOOLEAN, has_outputdir \in BOOLEAN,
        has_alternates \in BOOLEAN, has_dryrun \in BOOLEAN,
        input \in RunInputs, output \in RunOutputs, dryrun \in { <<>>, s_no, PyTrue } }
    \cup { RunArgs({ "output", "outputdir" }, <<>>, <<>>, <<>>, f_sam, <<>>, <<>>, <<>>),
           RunArgs({ "input", "sampleid" }, s_sample, f_fastq, <<>>, <<>>, <<>>, <<>>, <<>>) }

InitIO ==
    /\ run_args_json \in RunArgsInputs
    /\ created = NoIOResult
    /\ InsIdle
    /\ FlatIdle
    /\ AsmIdle
    /\ JobIdle
    /\ TypeIdle
    /\ AuxIdle

CreateIOJSON ==
    /\ ~created.done
    /\ created' = createIOJSON(run_args_json)
    /\ UNCHANGED <<run_args_json, insVars, flatVars, asmVars, jobVars, typeVars, auxVars>>

NextIO == CreateIOJSON

SpecIO == InitIO /\ [][NextIO]_vars

(* a file of the run request has no directory part and the request has no  *)
(* inputdir / outputdir to complete it                                     *)
LacksDirectory(files, dir_key) ==
    /\ dir_key \notin run_args_json.keys
    /\ \E i \in 1..Len(Split(files, ",")) : ~Contains(Split(files, ",")[i], <<"/">>)

(* C20: errors propagate to the immediate caller: createIOJSON, given a    *)
(* run request whose input or output has no directory part and no          *)
(* inputdir / outputdir, raises to its caller instead of returning an IO   *)
(* descriptor.                                                             *)
C20_ErrorsPropagate ==
    ( /\ created.done
      /\ { "input", "output" } \subseteq run_args_json.keys
      /\ \/ LacksDirectory(run_args_json.input, "inputdir")
         \/ LacksDirectory(run_args_json.output, "outputdir") )
        => created.raised # ""

----------------------------------------------------------------------------
(* The inferFileType specification: one call on a path or a list of paths *)

TypeDirs == { <<>>, <<"a", "/">>, <<"a", ".", "b", "/">>, FolderOf(f_fastq) }
TypeNames ==
    { <<>>, <<"f", "o", "l", "d", "e", "r">>, <<"f", "o", "l", "d", "e", "r", "/">>,
      BaseName(f_alt_txt), BaseName(f_fastq_gz1), Upper(BaseName(f_fastq_gz1)),
      <<"f", ".", "g", "z">>, <<"x", ".", "y", ".", "b", "a", "m">>, s_FASTQ_GZ }
TypePaths == { dir \o name : dir \in TypeDirs, name \in TypeNames }

TypeInputs ==
    { Str(path) : path \in TypePaths }
        \cup { Lst(<<Str(path)>>) : path \in TypePaths }
        \cup { Lst(<<Str(path), Str(f_bed)>>) : path \in TypePaths }
        \cup { Lst(<<>>) }

InitType ==
    /\ fn_arg \in TypeInputs
    /\ inferred = NoType
    /\ InsIdle
    /\ FlatIdle
    /\ AsmIdle
    /\ JobIdle
    /\ IOIdle
    /\ AuxIdle

InferFileType ==
    /\ ~inferred.done
    /\ inferred' = [done |-> TRUE, s |-> inferFileType(fn_arg)]
    /\ UNCHANGED <<fn_arg, insVars, flatVars, asmVars, jobVars, ioVars, auxVars>>

NextType == InferFileType

SpecType == InitType /\ [][NextType]_vars

(* the substring after the final '.', and the two final dot-segments *)
AfterFinalDot(name) == SubSeq(name, RFind(name, ".") + 2, Len(name))
TwoFinalSegments(name) ==
    AfterFinalDot(SliceTo(name, RFind(name, "."))) \o <<".">> \o AfterFinalDot(name)

(* the path inferFileType inspects: the path itself, the first of a list *)
InspectedPath ==
    IF IsStr(fn_arg) THEN fn_arg.s
    ELSE IF fn_arg.items # <<>> THEN fn_arg.items[1].s
    ELSE <<>>

(* C14: inferFileType returns the substring after the final '.' of the     *)
(* file name, or the two final dot-segments when the name ends with the    *)
(* compound suffix FASTQ.GZ (ignoring case); of a list only the first path *)
(* is inspected; for a path whose last path component has no '.' it        *)
(* returns the empty string.                                               *)
C14_InferredType ==
    inferred.done
        => inferred.s =
             IF ~Contains(BaseName(InspectedPath), <<".">>) THEN <<>>
             ELSE IF EndsWith(Upper(InspectedPath), s_FASTQ_GZ)
                  THEN TwoFinalSegments(InspectedPath)
             ELSE AfterFinalDot(InspectedPath)

----------------------------------------------------------------------------
(* Properties of the error handling of the assembly (checked under         *)
(* SpecAssemble)                                                           *)

(* C13: when no template slot's file type equals the inferred type of a    *)
(* supplied file the slot stays unresolved and is skipped without an       *)
(* error: createProgramArguments still returns a command, for the primary  *)
(* input and primary output as well as for alternates.                     *)
C13_UnresolvedSkipped ==
    ( /\ pc # "start"
      /\ template.missing = {}
      /\ ~mi_json.raised
      /\ ~mi_json.program_input.resolved \/ ~mi_json.program_output.resolved )
        => pc # "error"

(* C19: a template missing any of the four slot lists is a fatal error     *)
(* raised by createModuleInstanceJSON before any file is staged, for every *)
(* IO JSON, including one with no alternate inputs or outputs.             *)
C19_IncompleteTemplateFatal ==
    (template.missing # {} /\ pc # "start")
        => (pc = "error" /\ mi_json.raised /\ order = <<>>)

----------------------------------------------------------------------------
(* module_utils.initProgram: the files it fetches itself                   *)

MODULE_TEMPLATE_PATH ==
    <<"s", "3", ":", "/", "/", "n", "p", "i", "p", "u", "b", "l", "i", "c",
      "i", "n", "t", "e", "r", "n", "a", "l", "/", "t", "e", "s", "t", "/",
      "t", "e", "m", "p", "l", "a", "t", "e", "s", "/">>
MODULE_DIR ==
    <<"s", "3", ":", "/", "/", "n", "p", "i", "p", "u", "b", "l", "i", "c",
      "i", "n", "t", "e", "r", "n", "a", "l", "/", "t", "e", "s", "t", "/",
      "m", "o", "d", "u", "l", "e", "s", "/">>

(* os.path.join(MODULE_TEMPLATE_PATH, which_module + '.template.json') *)
getModuleTemplate(which_module) ==
    PathJoin(MODULE_TEMPLATE_PATH,
             which_module \o <<".", "t", "e", "m", "p", "l", "a", "t", "e", ".", "j", "s", "o", "n">>)

(* os.path.join(getModuleDirectory(), module, 'job/') *)
getModuleJobDirectory(module) ==
    PathJoin(PathJoin(MODULE_DIR, module), <<"j", "o", "b", "/">>)

getModuleRunNameID(module, job_id, name_type) ==
    IF name_type = "io_json"
    THEN module \o <<".">> \o job_id \o <<".", "i", "o", ".", "j", "s", "o", "n">>
    ELSE IF name_type = "job_json"
    THEN module \o <<".">> \o job_id \o <<".", "j", "o", "b", ".", "j", "s", "o", "n">>
    ELSE IF name_type = "job_name"
    THEN <<"j", "o", "b", "_">> \o module \o <<"_">> \o job_id
    ELSE IF name_type = "job_def"
    THEN <<"j", "d", "e", "f", "_">> \o module \o <<"_">> \o job_id
    ELSE module \o <<".">> \o job_id

getModuleRunJobFilePath(module, job_id) ==
    PathJoin(getModuleJobDirectory(module),
             getModuleRunNameID(module, job_id, "job_json"))

(* file_utils.downloadFile(files, dest_folder, file_system, mock): it      *)
(* calls downloadFiles with file_system = 'local' and mock = False         *)
(* whatever it was given                                                   *)
downloadFile(files, dest_folder, file_system, mock_) ==
    downloadFiles(files, dest_folder, <<"l", "o", "c", "a", "l">>, FALSE)

(* the downloadFiles call that downloadFile(files, WORKING_DIR) makes, the *)
(* working directory being the input_working_dir initProgram hands to      *)
(* createProgramArguments                                                  *)
FileDownload(caller, files) ==
    [by |-> "downloadFiles",
     files |-> Str(files),
     dest_folder |-> input_working_dir,
     file_system |-> <<"l", "o", "c", "a", "l">>,
     mock |-> FALSE,
     caller |-> caller]

(* str(args.run_arguments).split('/')[-1].split('.')[1], an IndexError for *)
(* a file name without '.'                                                 *)
RunJobId(run_arguments) ==
    LET parts == Split(BaseName(run_arguments), ".")
    IN IF Len(parts) < 2 THEN Raises("IndexError") ELSE Str(parts[2])

(* getModuleRunJobFileJSON: '_test' in job_id and 'dryrun' in job_id, for  *)
(* which no job file is fetched                                            *)
IsTestDryRun(job_id) ==
    /\ Contains(job_id, <<"_", "t", "e", "s", "t">>)
    /\ Contains(job_id, <<"d", "r", "y", "r", "u", "n">>)

(* the values of --run_arguments tried: a file on S3, a local file, the    *)
(* file of a dry-run test job, a file name without '.', and an S3 path     *)
(* without a bucket                                                        *)
RunArgumentsPaths ==
    { <<"s", "3", ":", "/", "/", "r", "/", "b", "w", "a", ".", "j", "o", "b", "1", ".", "r", "u", "n", ".", "j", "s", "o", "n">>,
      <<"/", "r", "/", "b", "w", "a", ".", "j", "o", "b", "0", ".", "r", "u", "n", ".", "j", "s", "o", "n">>,
      <<"/", "r", "/", "b", "w", "a", ".", "d", "r", "y", "r", "u", "n", "_", "t", "e", "s", "t", ".", "r", "u", "n", ".", "j", "s", "o", "n">>,
      <<"/", "r", "/", "r", "u", "n", "j", "s", "o", "n">>,
      <<"s", "3", ":", "/", "b", "w", "a", ".", "j", ".", "j", "s", "o", "n">> }

ProgramArgs ==
    { [module_name |-> s_bwa, run_arguments |-> path] : path \in RunArgumentsPaths }

----------------------------------------------------------------------------
(* The job specification: a module instance is created and its command     *)
(* assembled (createModuleInstanceJSON, createProgramArguments, in mock    *)
(* mode or with real transfers, each of which may fail), either by         *)
(* initProgram, which first fetches the run-arguments file and the module  *)
(* template and afterwards the job file, or by a caller of the two         *)
(* functions; the command may be assembled again from the same objects;    *)
(* runProgram executes it and uploadOutput uploads the output folder after *)
(* an execution that was neither skipped as a dry run nor made in mock     *)
(* mode.                                                                   *)

MaxRuns == 1

JobTemplates ==
    { TwoBedSlotsTemplate,
      Template(<<>>, <<>>, 0, <<>>, -1, <<FastaSlot(s_folder, -2), BedSlot(0)>>) }

OutputFiles == { <<>>, output_working_dir, output_working_dir \o BaseName(f_sam) }

(* initProgram has parsed its arguments and made the working directory    *)
(* (pc = "init"; the run-arguments file holds io_json and the template     *)
(* file template, and createProgramArguments will be called without mock), *)
(* or createModuleInstanceJSON is about to be called by another caller     *)
(* (pc = "start", args = NoArgs)                                           *)
InitJob ==
    /\ template \in JobTemplates
    /\ io_json \in IOs
    /\ mi_json = NoInstance
    /\ pargs_list = <<>>
    /\ args \in ProgramArgs \cup { NoArgs }
    /\ pc = IF args = NoArgs THEN "start" ELSE "init"
    /\ alt_i = 1
    /\ order = <<>>
    /\ command = EmptyStr
    /\ mock \in IF args = NoArgs THEN BOOLEAN ELSE { FALSE }
    /\ raised = ""
    /\ subprocesses = <<>>
    /\ uploads = <<>>
    /\ downloads = <<>>
    /\ runs = 0
    /\ previous = EmptyStr
    /\ InsIdle
    /\ FlatIdle
    /\ TypeIdle
    /\ IOIdle
    /\ AuxIdle

(* initProgram: run_arguments_file = file_utils.downloadFile(               *)
(* args.run_arguments, WORKING_DIR); the transfer is an S3 download or,    *)
(* for a local path, the cp of copyLocalFiles, and the exception of the    *)
(* call or of the transfer leaves initProgram                              *)
DownloadRunArguments(ok) ==
    /\ pc = "init"
    /\ LET returned == downloadFile(Str(args.run_arguments), input_working_dir,
                                    <<"l", "o", "c", "a", "l">>, FALSE)
       IN /\ downloads' = Append(downloads,
                                 FileDownload("initProgram", args.run_arguments))
          /\ pc' = IF returned.kind = "raise" THEN "error"
                   ELSE IF ok THEN "job_id" ELSE "fatal"
          /\ raised' = IF returned.kind # "raise" /\ ~ok THEN "DownloadError"
                       ELSE raised
    /\ UNCHANGED <<template, io_json, mi_json, pargs_list, alt_i, order, command,
                   args, mock, subprocesses, uploads, runs, previous,
                   insVars, flatVars, typeVars, ioVars, auxVars>>

(* initProgram: run_job_id = str(args.run_arguments).split('/')[-1]        *)
(* .split('.')[1]                                                          *)
GetRunJobId ==
    /\ pc = "job_id"
    /\ pc' = IF RunJobId(args.run_arguments).kind = "raise" THEN "error"
             ELSE "template"
    /\ UNCHANGED <<template, io_json, mi_json, pargs_list, alt_i, order, command,
                   insVars, flatVars, extVars>>

(* initProgram: module_template_file = file_utils.downloadFile(            *)
(* getModuleTemplate(args.module_name), WORKING_DIR), after which          *)
(* createModuleInstanceJSON is called                                      *)
DownloadModuleTemplate(ok) ==
    /\ pc = "template"
    /\ downloads' = Append(downloads,
                           FileDownload("initProgram",
                                        getModuleTemplate(args.module_name)))
    /\ pc' = IF ok THEN "start" ELSE "fatal"
    /\ raised' = IF ok THEN raised ELSE "DownloadError"
    /\ UNCHANGED <<template, io_json, mi_json, pargs_list, alt_i, order, command,
                   args, mock, subprocesses, uploads, runs, previous,
                   insVars, flatVars, typeVars, ioVars, auxVars>>

(* initProgram: getModuleRunJobFileJSON(run_module_name, run_job_id,       *)
(* WORKING_DIR) once createProgramArguments has returned: the job file is  *)
(* fetched unless the job is a dry-run test, and the exception of the      *)
(* transfer leaves initProgram, which then returns no run_json             *)
GetModuleRunJobFileJSON(ok) ==
    /\ pc = "job_json"
    /\ LET job_id == RunJobId(args.run_arguments).s
       IN IF IsTestDryRun(job_id)
          THEN /\ pc' = "done"
               /\ UNCHANGED <<downloads, raised>>
          ELSE /\ downloads' = Append(downloads,
                       FileDownload("getModuleRunJobFileJSON",
                                    getModuleRunJobFilePath(args.module_name, job_id)))
               /\ pc' = IF ok THEN "done" ELSE "fatal"
               /\ raised' = IF ok THEN raised ELSE "DownloadError"
    /\ UNCHANGED <<template, io_json, mi_json, pargs_list, alt_i, order, command,
                   args, mock, subprocesses, uploads, runs, previous,
                   insVars, flatVars, typeVars, ioVars, auxVars>>

(* the rtype the caller passes: initProgram passes none, which is 'str' *)
CallerReturnTypes ==
    IF args = NoArgs THEN ReturnTypes ELSE { <<"s", "t", "r">> }

(* Variant in which the failed download of the primary input is swallowed  *)
(* and the assembly goes on without the argument.                          *)
PrimaryInputTransferError_Swallowed ==
    /\ pc = "input"
    /\ mi_json.program_input.resolved
    /\ ~mock
    /\ downloads' = Append(downloads, DownloadCall(mi_json.program_input))
    /\ raised' = "DownloadError"
    /\ pc' = "output"
    /\ UNCHANGED <<template, io_json, mi_json, pargs_list, alt_i, order, command,
                   args, mock, subprocesses, uploads, runs, previous,
                   insVars, flatVars, typeVars, ioVars, auxVars>>

(* downloadFiles / downloadFolder of the primary input fails: the          *)
(* exception of the transfer leaves createProgramArguments                 *)
PrimaryInputTransferError ==
    /\ pc = "input"
    /\ mi_json.program_input.resolved
    /\ ~mock
    /\ downloads' = Append(downloads, DownloadCall(mi_json.program_input))
    /\ raised' = "DownloadError"
    /\ pc' = "fatal"
    /\ UNCHANGED <<template, io_json, mi_json, pargs_list, alt_i, order, command,
                   args, mock, subprocesses, uploads, runs, previous,
                   insVars, flatVars, typeVars, ioVars, auxVars>>

(* the same for the alternate input about to be added *)
AlternateInputTransferError ==
    /\ pc = "alternate_inputs"
    /\ ~mock
    /\ downloads' = Append(downloads, DownloadCall(mi_json.alternate_inputs[alt_i]))
    /\ raised' = "DownloadError"
    /\ pc' = "fatal"
    /\ UNCHANGED <<template, io_json, mi_json, pargs_list, alt_i, order, command,
                   args, mock, subprocesses, uploads, runs, previous,
                   insVars, flatVars, typeVars, ioVars, auxVars>>

(* the caller assembles once more from the objects of the run before:      *)
(* from the template and IO JSON (from = "start") or from the module       *)
(* instance JSON (from = "split")                                          *)
AssembleAgain(from) ==
    /\ pc = "done"
    /\ mock
    /\ runs < MaxRuns
    /\ runs' = runs + 1
    /\ previous' = command
    /\ order' = <<>>
    /\ pc' = from
    /\ UNCHANGED <<downloads, template, io_json, mi_json, pargs_list, alt_i, command,
                   args, mock, raised, subprocesses, uploads, insVars, flatVars, typeVars, ioVars, auxVars>>

(* when the job's caller runs the command, and when it uploads the output: *)
(* once runProgram has returned from an execution, and neither in mock     *)
(* mode nor after an execution that was skipped as a dry run               *)
CallerRuns == pc = "done"
CallerUploads == pc = "ran" /\ ~mock /\ subprocesses # <<>>

(* runProgram(program_arguments, local_output_file): executeProgram, whose *)
(* exception, if any, leaves runProgram too                                *)
RunProgram(local_output_file, status) ==
    /\ CallerRuns
    /\ LET execution == executeProgram(command, local_output_file, status)
       IN /\ subprocesses' = IF execution.started THEN Append(subprocesses, execution)
                             ELSE subprocesses
          /\ raised' = execution.raised
          /\ pc' = IF execution.raised # "" THEN "fatal" ELSE "ran"
    /\ UNCHANGED <<downloads, template, io_json, mi_json, pargs_list, alt_i, order, command,
                   args, mock, uploads, runs, previous, insVars, flatVars, typeVars, ioVars, auxVars>>

(* uploadOutput(local_out, remote_out): file_utils.uploadFolder, which may *)
(* fail                                                                    *)
UploadOutput(ok) ==
    /\ CallerUploads
    /\ uploads' = Append(uploads, uploadFolder(output_working_dir,
                                               mi_json.program_output.directory))
    /\ raised' = IF ok THEN "" ELSE "UploadError"
    /\ pc' = IF ok THEN "uploaded" ELSE "fatal"
    /\ UNCHANGED <<downloads, template, io_json, mi_json, pargs_list, alt_i, order, command,
                   args, mock, subprocesses, runs, previous, insVars, flatVars, typeVars, ioVars, auxVars>>

NextJob ==
    \/ \E ok \in BOOLEAN : DownloadRunArguments(ok)
    \/ GetRunJobId
    \/ \E ok \in BOOLEAN : DownloadModuleTemplate(ok)
    \/ CreateModuleInstanceJSON
    \/ SplitProgramArguments
    \/ PrimaryInputKeyError
    \/ PrimaryInputTransferError
    \/ InsertPrimaryInput
    \/ PrimaryOutputKeyError
    \/ InsertPrimaryOutput
    \/ AlternateInputTransferError
    \/ InsertAlternateInput
    \/ InsertAlternateOutput
    \/ InsertProgramSubname
    \/ InsertProgramName
    \/ \E rtype \in CallerReturnTypes : ReturnProgramArguments(rtype)
    \/ \E ok \in BOOLEAN : GetModuleRunJobFileJSON(ok)
    \/ \E from \in { "start", "split" } : AssembleAgain(from)
    \/ \E local_output_file \in OutputFiles, status \in { 0, 1 } :
          RunProgram(local_output_file, status)
    \/ \E ok \in BOOLEAN : UploadOutput(ok)

SpecJob == InitJob /\ [][NextJob]_vars

----------------------------------------------------------------------------
(* Properties of the job (checked under SpecJob) *)

(* the command carries the dry-run marker: as a substring of the string,   *)
(* or spelled by the elements of the list                                  *)
CarriesMarker(pargs) ==
    IF IsStr(pargs) THEN Contains(pargs.s, DRYRUN_MARKER)
    ELSE Contains(Join(<<>>, [i \in 1..Len(pargs.items) |-> pargs.items[i].s]),
                  DRYRUN_MARKER)

(* C12: executeProgram never starts a subprocess when the dry-run marker   *)
(* is present in the command it is given: no subprocess was started with a *)
(* command that carries the marker, and a job whose command carries it has *)
(* started none.                                                           *)
C12_NoSubprocessInDryRun ==
    /\ \A i \in 1..Len(subprocesses) : ~CarriesMarker(subprocesses[i].pargs)
    /\ (pc \in { "ran", "uploaded", "fatal" } /\ CarriesMarker(command))
           => subprocesses = <<>>

C12_Witness ==
    /\ pc = "ran"
    /\ IsStr(command)
    /\ CarriesMarker(command)
    /\ mi_json.dryrun
    /\ subprocesses = <<>>

(* C15: assembling the same template and IO JSON twice in mock mode gives  *)
(* the same command, also when the second assembly reuses the objects of   *)
(* the first: a command returned after an earlier one, for the same return *)
(* type, equals it.                                                        *)
C15_Idempotent ==
    (pc = "done" /\ runs > 0 /\ command.kind = previous.kind) => command = previous

C15_Witness ==
    /\ pc = "done"
    /\ mock
    /\ runs = 1
    /\ IsStr(command)
    /\ command = previous
    /\ Len(mi_json.alternate_inputs) = 3
    /\ Len(Split(command.s, " ")) > 8

ExecutionFailed == subprocesses # <<>> /\ Last(subprocesses).status # 0

(* C16: if the external tool exits with a nonzero status the job ends in   *)
(* the terminal fatal state without reaching the upload: executeProgram    *)
(* raises to its caller, the tool is not started again, and the output     *)
(* folder is not uploaded.                                                 *)
C16_ExecutionFailureFatal ==
    ExecutionFailed
        => /\ pc = "fatal"
           /\ raised = "CalledProcessError"
           /\ Len(subprocesses) = 1
           /\ uploads = <<>>

C16_Witness ==
    /\ ExecutionFailed
    /\ pc = "fatal"
    /\ ~mock
    /\ Last(subprocesses).redirected

(* the transfer that failed is one createProgramArguments made for an      *)
(* input slot                                                              *)
StagingFailed ==
    /\ raised = "DownloadError"
    /\ downloads # <<>>
    /\ Last(downloads).caller = "createProgramArguments"

(* C17: a failed download of the primary input or of an alternate input    *)
(* ends the job before a command exists: createProgramArguments returns    *)
(* nothing, and nothing is executed or uploaded for the job.               *)
C17_StagingFailureFatal ==
    StagingFailed
        => /\ pc = "fatal"
           /\ command = EmptyStr
           /\ subprocesses = <<>>
           /\ uploads = <<>>

C17_Witness ==
    /\ StagingFailed
    /\ pc = "fatal"
    /\ Len(order) = 3
    /\ order[3].category = "alternate_input"

(* C18: the output folder is uploaded only after a successful execution    *)
(* that was not a dry run: a job whose command carries the dry-run marker  *)
(* never uploads, and a job that has run its command outside mock mode     *)
(* without uploading yet is one that can still upload.                     *)
C18_NoUploadInDryRun ==
    /\ uploads # <<>>
           => /\ ~CarriesMarker(command)
              /\ subprocesses # <<>>
              /\ Last(subprocesses).status = 0
    /\ (pc \in { "ran", "uploaded", "fatal" } /\ CarriesMarker(command))
           => uploads = <<>>
    /\ (pc = "ran" /\ ~mock /\ ~CarriesMarker(command)) => CallerUploads

C18_Witness ==
    /\ pc = "uploaded"
    /\ ~mock
    /\ ~mi_json.dryrun
    /\ Len(subprocesses) = 1
    /\ subprocesses[1].status = 0
    /\ uploads = <<uploadFolder(output_working_dir, FolderOf(f_sam))>>


----------------------------------------------------------------------------
(* The suppressing position: createModuleInstanceJSON and                  *)
(* createProgramArguments on templates with slots at position -100, in     *)
(* mock mode and with real transfers                                       *)

(* the -S -t 4 template with the primary input at -100, with one alternate *)
(* input at -100 (a file, a folder), and with every slot at -100           *)
SuppressingTemplates ==
    { Template(s_mem, s_base, -100, s_i, 0, <<BedSlot(0), FastaSlot(s_file, -2)>>),
      Template(s_mem, s_base, -1, s_i, 0, <<BedSlot(-100), FastaSlot(s_folder, -2)>>),
      Template(s_mem, s_base, -1, s_i, 0, <<BedSlot(0), FastaSlot(s_folder, -100)>>),
      [Template(s_mem, s_base, -100, s_i, -100,
                <<BedSlot(-100), FastaSlot(s_folder, -100)>>)
          EXCEPT !.alternate_outputs = <<Slot(s_file, s_LOG, -100, s_g)>>] }

InitSuppress ==
    /\ template \in SuppressingTemplates
    /\ io_json \in IOs
    /\ mi_json = NoInstance
    /\ pargs_list = <<>>
    /\ pc = "start"
    /\ alt_i = 1
    /\ order = <<>>
    /\ command = EmptyStr
    /\ args = NoArgs
    /\ mock \in BOOLEAN
    /\ raised = ""
    /\ subprocesses = <<>>
    /\ uploads = <<>>
    /\ downloads = <<>>
    /\ runs = 0
    /\ previous = EmptyStr
    /\ InsIdle
    /\ FlatIdle
    /\ TypeIdle
    /\ IOIdle
    /\ AuxIdle

NextSuppress ==
    \/ CreateModuleInstanceJSON
    \/ SplitProgramArguments
    \/ PrimaryInputKeyError
    \/ PrimaryInputTransferError
    \/ InsertPrimaryInput
    \/ PrimaryOutputKeyError
    \/ InsertPrimaryOutput
    \/ AlternateInputTransferError
    \/ InsertAlternateInput
    \/ InsertAlternateOutput
    \/ InsertProgramSubname
    \/ InsertProgramName
    \/ \E rtype \in ReturnTypes : ReturnProgramArguments(rtype)

SpecSuppress == InitSuppress /\ [][NextSuppress]_vars

(* the input slots and the output slots of a module instance, in the order *)
(* createProgramArguments goes through them                                *)
InputSlots(mi) ==
    (IF mi.program_input.resolved THEN <<mi.program_input>> ELSE <<>>)
        \o mi.alternate_inputs
OutputSlots(mi) ==
    (IF mi.program_output.resolved THEN <<mi.program_output>> ELSE <<>>)
        \o mi.alternate_outputs

(* the local paths the slot's files are staged to *)
StagedPaths(slot) ==
    LET staged == Last(InputArgument(slot).items)
    IN IF IsList(staged) THEN { staged.items[i].s : i \in 1..Len(staged.items) }
       ELSE { staged.s }

(* the paths an output slot would put into the command *)
OutputPaths(slot) ==
    LET paths == getFullPath(output_working_dir, slot.io)
    IN IF IsList(paths) THEN { paths.items[i].s : i \in 1..Len(paths.items) }
       ELSE { paths.s }

(* no token of the command is the slot's prefix or one of the paths *)
NoTokenOf(slot, paths) ==
    \A i \in 1..Len(CommandTokens) :
        /\ CommandTokens[i] \notin paths
        /\ slot.prefix # <<>> => CommandTokens[i] # slot.prefix

(* C21: a slot whose position is -100 is staged like any other slot: when  *)
(* createProgramArguments returns, the download calls made are, in order,  *)
(* one per input slot of the module instance (primary input, then each     *)
(* alternate input), each with the arguments its slot gives whatever the   *)
(* slot's position; and the command returned holds neither the prefix nor  *)
(* any path of a slot at -100, be it an input or an output, primary or     *)
(* alternate.                                                              *)
C21_SuppressedStaged ==
    pc = "done"
        => /\ Len(downloads) = (runs + 1) * Len(InputSlots(mi_json))
           /\ \A k \in 1..Len(downloads) :
                  downloads[k] =
                      DownloadCall(InputSlots(mi_json)[((k - 1) % Len(InputSlots(mi_json))) + 1])
           /\ \A i \in 1..Len(InputSlots(mi_json)) :
                  InputSlots(mi_json)[i].position = -100
                      => NoTokenOf(InputSlots(mi_json)[i], StagedPaths(InputSlots(mi_json)[i]))
           /\ \A i \in 1..Len(OutputSlots(mi_json)) :
                  OutputSlots(mi_json)[i].position = -100
                      => NoTokenOf(OutputSlots(mi_json)[i], OutputPaths(OutputSlots(mi_json)[i]))

(* every slot at -100, with real transfers: the primary input, a file and  *)
(* a folder among the alternate inputs, and both outputs; three downloads  *)
(* were made and the command is the names and the base arguments           *)
C21_Witness ==
    /\ pc = "done"
    /\ ~mock
    /\ mi_json.program_input.position = -100
    /\ mi_json.program_output.position = -100
    /\ Len(mi_json.alternate_inputs) = 2
    /\ \A i \in 1..2 : mi_json.alternate_inputs[i].position = -100
    /\ \E i \in 1..2 : Lower(mi_json.alternate_inputs[i].type) = s_folder
    /\ Len(mi_json.alternate_outputs) = 1
    /\ mi_json.alternate_outputs[1].position = -100
    /\ Len(downloads) = 3
    /\ downloads[1].by = "downloadFiles"
    /\ \E k \in 2..3 : downloads[k].by = "downloadFolder"
    /\ command = Str(s_bwa \o <<" ">> \o s_mem \o <<" ">> \o s_base)


----------------------------------------------------------------------------
(* The downloadFiles specification: one call in mock mode on a path or a   *)
(* list of paths and a destination folder                                  *)

(* '/data/bed/' of the docstring, the same without the final '/', a        *)
(* relative folder, and the current folder given as ''                     *)
StageFolders ==
    { <<"/", "d", "/">>, <<"/", "d">>, <<"b", "e", "d">>, <<>> }

StagePaths ==
    { f_bed, <<"/", "i", "n", "/", "m", "y", ".", "b", "e", "d">>,
      <<"m", "y", "2", ".", "b", "e", "d">>, f_fasta }

StageInputs ==
    { Str(path) : path \in StagePaths }
        \cup { Lst(StrList(paths)) : paths \in DistinctSeqs(StagePaths, 2) }

InitStage ==
    /\ dl_files \in StageInputs
    /\ dl_dest_folder \in StageFolders
    /\ dl_returned = NoDownload
    /\ InsIdle
    /\ FlatIdle
    /\ AsmIdle
    /\ JobIdle
    /\ TypeIdle
    /\ IOIdle
    /\ DirIdle

(* downloadFiles(files, dest_folder, file_system, True) *)
DownloadFiles(file_system) ==
    /\ ~dl_returned.done
    /\ dl_returned' = [done |-> TRUE,
                       value |-> downloadFiles(dl_files, dl_dest_folder, file_system, TRUE)]
    /\ UNCHANGED <<dl_files, dl_dest_folder, insVars, flatVars, asmVars, jobVars,
                   typeVars, ioVars, dirVars>>

NextStage ==
    \E file_system \in { <<"l", "o", "c", "a", "l">>, <<"s", "3">>, <<"S", "3">> } :
        DownloadFiles(file_system)

SpecStage == InitStage /\ [][NextStage]_vars

(* the destination folder joined with the file name of a remote path *)
LocalPath(remote) == Str(PathJoin(dl_dest_folder, BaseName(remote.s)))

(* C22: in mock mode downloadFiles returns, for a list of remote paths, a  *)
(* list of the same length whose i-th element is the destination folder    *)
(* joined with the file name of the i-th remote path, and for a single     *)
(* path string a single such path string.                                  *)
C22_LocalPaths ==
    dl_returned.done
        => IF IsList(dl_files)
           THEN /\ IsList(dl_returned.value)
                /\ Len(dl_returned.value.items) = Len(dl_files.items)
                /\ \A i \in 1..Len(dl_files.items) :
                       dl_returned.value.items[i] = LocalPath(dl_files.items[i])
           ELSE dl_returned.value = LocalPath(dl_files)


----------------------------------------------------------------------------
(* Properties of the base arguments (checked under SpecAssemble) *)

(* s.split(): the maximal runs of characters other than the space *)
WhitespaceTokens(s) == SelectSeq(Split(s, " "), LAMBDA piece : piece # <<>>)

(* C23: the base-argument string is tokenized by whitespace and its N      *)
(* tokens occupy the indices 0..N-1 of the token list: when the slots are  *)
(* about to be inserted, the list holds exactly the whitespace-separated   *)
(* tokens of the base arguments, none for the empty string.                *)
C23_WhitespaceTokens ==
    pc = "input" => pargs_list = StrList(WhitespaceTokens(mi_json.program_arguments))


----------------------------------------------------------------------------
(* Properties of createIOJSON (checked under SpecIO) *)

(* an entry with a '/' unchanged, any other joined onto the directory *)
Completed(entry, dir) ==
    IF Contains(entry, <<"/">>) THEN entry ELSE PathJoin(dir, entry)

CompletedList(files, dir) ==
    LET entries == Split(files, ",")
    IN Lst(StrList([i \in 1..Len(entries) |-> Completed(entries[i], dir)]))

(* C24: for a run request that names a directory wherever a file has none, *)
(* the IO descriptor lists one input per comma-separated input, in order,  *)
(* an entry with a '/' unchanged and any other joined onto inputdir, the   *)
(* outputs likewise with outputdir, and its sample id is the request's     *)
(* 'sampleid', else its 'sample_id', else the part of the first input's    *)
(* file name before its first '.'.                                         *)
C24_IODescriptor ==
    ( /\ created.done
      /\ { "input", "output" } \subseteq run_args_json.keys
      /\ ~LacksDirectory(run_args_json.input, "inputdir")
      /\ ~LacksDirectory(run_args_json.output, "outputdir") )
        => /\ created.raised = ""
           /\ created.input = CompletedList(run_args_json.input, run_args_json.inputdir)
           /\ created.output = CompletedList(run_args_json.output, run_args_json.outputdir)
           /\ created.sample_id
                 = IF "sampleid" \in run_args_json.keys THEN run_args_json.sampleid
                   ELSE IF "sample_id" \in run_args_json.keys THEN run_args_json.sample_id
                   ELSE Head(Split(BaseName(Head(Split(run_args_json.input, ","))), "."))


----------------------------------------------------------------------------
(* Properties of successive insertArgument calls (checked under SpecInsert) *)

Occurs(x, list) == \E i \in 1..Len(list) : list[i] = x
IndexOf(x, list) == CHOOSE i \in 1..Len(list) : list[i] = x

(* C25: two successive end-relative insertions with the same position p    *)
(* (-99 < p < -1) keep their order: the argument inserted first precedes   *)
(* the argument inserted next, for every list they are inserted into (the  *)
(* two arguments being different and not in the list already).             *)
C25_EndRelativeOrder ==
    [][ ( /\ call.done
          /\ call'.pos = call.pos
          /\ call.pos > -99
          /\ call.pos < -1
          /\ call'.arg # call.arg
          /\ ~Occurs(call.arg, call.before)
          /\ ~Occurs(call'.arg, call.before) )
            => IndexOf(call.arg, arg_list') < IndexOf(call'.arg, arg_list') ]_vars


----------------------------------------------------------------------------
(* The generateWorkingDir specification: MaxJobs runs on one machine call  *)
(* generateWorkingDir(base_dir) with the same base_dir, concurrently. A    *)
(* path is the sequence of its components; uuid[run] is "" until the run   *)
(* has drawn its uuid4, working_dir[run] is <<>> until the call returned.  *)

base_dir == <<"base">>

(* the values str(uuid.uuid4()) may take *)
UUIDs == { "u1", "u2", "u3" }

InitWorkDir ==
    /\ mkdir_ok \in BOOLEAN
    /\ made = {}
    /\ uuid = [run \in 1..MaxJobs |-> ""]
    /\ working_dir = [run \in 1..MaxJobs |-> <<>>]
    /\ InsIdle
    /\ FlatIdle
    /\ AsmIdle
    /\ JobIdle
    /\ TypeIdle
    /\ IOIdle
    /\ StageIdle

(* working_dir = os.path.join(base_dir, str(uuid.uuid4())) *)
DrawUuid(run, u) ==
    /\ uuid[run] = ""
    /\ uuid' = [uuid EXCEPT ![run] = u]
    /\ UNCHANGED <<mkdir_ok, made, working_dir, insVars, flatVars, asmVars, jobVars,
                   typeVars, ioVars, stageVars>>

(* os.mkdir(working_dir), which raises when base_dir takes no new          *)
(* directory or the directory exists; return base_dir then, working_dir    *)
(* otherwise                                                               *)
generateWorkingDir(run) ==
    /\ uuid[run] # ""
    /\ working_dir[run] = <<>>
    /\ IF mkdir_ok /\ uuid[run] \notin made
       THEN /\ made' = made \cup { uuid[run] }
            /\ working_dir' = [working_dir EXCEPT ![run] = Append(base_dir, uuid[run])]
       ELSE /\ made' = made
            /\ working_dir' = [working_dir EXCEPT ![run] = base_dir]
    /\ UNCHANGED <<mkdir_ok, uuid, insVars, flatVars, asmVars, jobVars,
                   typeVars, ioVars, stageVars>>

NextWorkDir ==
    \/ \E run \in 1..MaxJobs, u \in UUIDs : DrawUuid(run, u)
    \/ \E run \in 1..MaxJobs : generateWorkingDir(run)

SpecWorkDir == InitWorkDir /\ [][NextWorkDir]_vars

(* C26: generateWorkingDir gives each run its own working directory: no    *)
(* two runs started with the same base_dir have received the same          *)
(* directory.                                                              *)
C26_OwnWorkingDir ==
    \A r1, r2 \in 1..MaxJobs :
        (r1 # r2 /\ working_dir[r1] # <<>> /\ working_dir[r2] # <<>>)
            => working_dir[r1] # working_dir[r2]


----------------------------------------------------------------------------
(* The run specification: a job from its run request on: createIOJSON,     *)
(* then the job of SpecJob on the IO JSON it returned, which initProgram   *)
(* reads from the run-arguments file.                                      *)

(* run requests with and without inputdir, alternates and dry-run, the     *)
(* dry-run given as '', as 'no' and as True                                *)
JobRequests ==
    { [ RunArgs(Keys(TRUE, has_inputdir, TRUE, has_alternates, dryrun # <<"-">>)
                    \cup (IF has_alternates THEN { "alternate_outputs" } ELSE {}),
                s_sample,
                input,
                IF has_inputdir THEN RStrip(FolderOf(f_fastq), "/") ELSE <<>>,
                output,
                FolderOf(f_sam),
                IF has_alternates THEN f_fasta \o <<",">> \o f_bed ELSE <<>>,
                IF dryrun # <<"-">> THEN dryrun ELSE <<>>)
          EXCEPT !.alternate_outputs = IF has_alternates THEN f_log ELSE <<>> ] :
        has_inputdir \in BOOLEAN, has_alternates \in BOOLEAN,
        input \in RunInputs, output \in RunOutputs,
        dryrun \in { <<"-">>, <<>>, s_no, PyTrue } }

InitRun ==
    /\ run_args_json \in JobRequests
    /\ created = NoIOResult
    /\ template \in JobTemplates
    /\ io_json = NoIO
    /\ mi_json = NoInstance
    /\ pargs_list = <<>>
    /\ pc = "request"
    /\ alt_i = 1
    /\ order = <<>>
    /\ command = EmptyStr
    /\ args \in ProgramArgs \cup { NoArgs }
    /\ mock \in IF args = NoArgs THEN BOOLEAN ELSE { FALSE }
    /\ raised = ""
    /\ subprocesses = <<>>
    /\ uploads = <<>>
    /\ downloads = <<>>
    /\ runs = 0
    /\ previous = EmptyStr
    /\ InsIdle
    /\ FlatIdle
    /\ TypeIdle
    /\ AuxIdle

(* io_json = createIOJSON(run_args_json), handed to                        *)
(* createModuleInstanceJSON, by initProgram or directly, unless an         *)
(* exception left createIOJSON                                             *)
CreateJobIOJSON ==
    /\ pc = "request"
    /\ created' = createIOJSON(run_args_json)
    /\ io_json' = IF created'.raised # "" THEN io_json
                  ELSE [input |-> created'.input, output |-> created'.output,
                        alternate_inputs |-> created'.alternate_inputs,
                        alternate_outputs |-> created'.alternate_outputs,
                        program_arguments |-> created'.program_arguments,
                        dryrun |-> created'.dryrun,
                        keys |-> {}, inputdir |-> <<>>, outputdir |-> <<>>]
    /\ raised' = created'.raised
    /\ pc' = IF created'.raised # "" THEN "fatal"
             ELSE IF args = NoArgs THEN "start" ELSE "init"
    /\ UNCHANGED <<downloads, run_args_json, template, mi_json, pargs_list, alt_i, order, command,
                   args, mock, subprocesses, uploads, runs, previous,
                   insVars, flatVars, typeVars, auxVars>>

NextRun ==
    \/ CreateJobIOJSON
    \/ NextJob

SpecRun == InitRun /\ [][NextRun]_vars

(* C27: dry-run is honoured end to end: for a run request for which        *)
(* isDryRun returns True, the command assembled from it carries the        *)
(* dry-run marker and no subprocess is started for it.                     *)
C27_DryRunEndToEnd ==
    isDryRun(run_args_json)
        => /\ pc \in { "done", "ran", "uploaded" } => CarriesMarker(command)
           /\ subprocesses = <<>>


----------------------------------------------------------------------------
(* Properties of the execution (checked under SpecJob) *)

(* C28: executeProgram skips the execution only for commands assembled     *)
(* with dry-run set: when it has returned for a command assembled without  *)
(* dry-run, the command was passed to the subprocess, whatever its base    *)
(* arguments and file paths hold.                                          *)
C28_OnlyDryRunSkipped ==
    (pc \in { "ran", "uploaded" } /\ ~mi_json.dryrun)
        => /\ subprocesses # <<>>
           /\ Last(subprocesses).pargs = command


(* C29: every insertArgument call, with any argument and any position,     *)
(* keeps every element the list held, in the same relative order, and      *)
(* makes the list longer by 0 or by 1: an insertion never removes,         *)
(* replaces or reorders existing tokens.                                   *)
C29_ExistingTokensKept ==
    [][ /\ IsSubsequence(arg_list, arg_list')
        /\ Len(arg_list') - Len(arg_list) \in { 0, 1 } ]_vars

C29_Witness ==
    /\ call.done
    /\ call.pos = 2
    /\ IsList(call.arg)
    /\ Len(call.before) = MaxLen - 1
    /\ Len(arg_list) = MaxLen
    /\ arg_list[3] = call.arg
    /\ \E i \in 1..MaxLen : arg_list[i] = T("a")


----------------------------------------------------------------------------
(* Frame properties of the assembly (checked under SpecAssemble) *)

(* C30: assembly does not modify its inputs: no step changes the template  *)
(* or the IO JSON, and once createModuleInstanceJSON has returned the      *)
(* module instance no step of createProgramArguments changes it, its       *)
(* nested file lists included.                                             *)
C30_InputsUnchanged ==
    [][ /\ template' = template
        /\ io_json' = io_json
        /\ pc # "start" => mi_json' = mi_json ]_vars

C30_Witness ==
    /\ pc = "done"
    /\ IsList(command)
    /\ template = TwoBedSlotsTemplate
    /\ io_json.alternate_inputs = <<Str(f_bed), Str(f_fasta)>>
    /\ Len(io_json.input.items) = 2
    /\ mi_json = createModuleInstanceJSON(template, io_json)
    /\ Len(mi_json.alternate_inputs) = 3
    /\ Len(order) = 7

====
